---- MODULE Spec2Model ----
(***************************************************************************)
(* A model of sf's ignore/visibility filter (src/src/filter.rs).           *)
(*                                                                         *)
(* A path is the sequence of its components (Path::components); a          *)
(* component is the sequence of its bytes, each written as a one-character *)
(* string.  The filesystem root "/" is the empty sequence.  An Option<T>   *)
(* is a sequence of length at most one: None is <<>>, Some(x) is <<x>>.    *)
(***************************************************************************)
EXTENDS Naturals, Sequences, FiniteSets, TLC

VARIABLES
    fs,                   \* the filesystem the Filter reads
    cfg,                  \* Filter.cfg, global_gitignore, global_fd_ignore
    dir_walkable_cache,   \* Filter.dir_walkable_cache
    repo_root_cache,      \* Filter.repo_root_cache
    fdignore_by_dir,      \* Filter.fdignore_by_dir
    ignore_by_dir,        \* Filter.ignore_by_dir
    gitignore_by_dir,     \* Filter.gitignore_by_dir
    info_exclude_by_repo, \* Filter.info_exclude_by_repo
    marker_log,           \* the removals and restorations of .git/HEAD so far
    filter_seen,          \* Len(marker_log) when the Filter was constructed
    probe,                \* one application of is_hidden_under_base or of render
    proc                  \* one run of the program: main, run and mdfind::run

vars == <<fs, cfg, dir_walkable_cache, repo_root_cache, fdignore_by_dir,
          ignore_by_dir, gitignore_by_dir, info_exclude_by_repo,
          marker_log, filter_seen, probe, proc>>

(***************************************************************************)
(* Bounds of the model.                                                    *)
(***************************************************************************)
\* the number of pattern lines written over all ignore files and globals, for
\* the default invocation (no -H, no -I) on a tree whose .git entries have HEAD
MaxRules == 2
\* the same, for every combination of -H and -I and every kind of .git entry
MaxRulesLight == 1
\* the number of directories that hold a .git entry
MaxRepos == 1

\* the number of times .git/HEAD is removed or restored in one behaviour
MaxChanges == 2

\* the number of segments of the path and of the base handed to
\* is_hidden_under_base
MaxPathLen == 3

MaxBaseLen == 2

(***************************************************************************)
(* Options, components and paths.                                          *)
(***************************************************************************)
None == <<>>

Some(x) == <<x>>

D == <<"d">>

F == <<"f">>

H == <<".", "h">>

Dot == <<".">>

DotDot == <<".", ".">>

ROOT == <<>>

\* cfg.search_base == cfg.cwd of the modelled invocations: /d
SearchBase == <<D>>

\* Path::parent: None for the filesystem root
Parent(p) == IF Len(p) = 0 THEN None ELSE Some(SubSeq(p, 1, Len(p) - 1))

\* path.parent().unwrap_or(path)
ParentOrSelf(p) == IF Parent(p) = None THEN p ELSE Parent(p)[1]

\* Path::starts_with: a whole-component prefix
StartsWith(p, base) ==
    /\ Len(base) <= Len(p)
    /\ SubSeq(p, 1, Len(base)) = base

\* Path::strip_prefix: Some(rest) when p starts with base
StripPrefix(p, base) ==
    IF StartsWith(p, base) THEN Some(SubSeq(p, Len(base) + 1, Len(p))) ELSE None

(***************************************************************************)
(* The hidden-path predicate.                                              *)
(***************************************************************************)
is_hidden_component(comp) ==
    IF comp = Dot \/ comp = DotDot
    THEN FALSE
    ELSE Len(comp) > 0 /\ comp[1] = "."

is_hidden_path(path) ==
    \E i \in 1..Len(path) : is_hidden_component(path[i])

\* is_hidden_under_base that looks at every component of the path
is_hidden_under_base_WholePath(path, base) == is_hidden_path(path)

is_hidden_under_base(path, base) ==
    LET rest == StripPrefix(path, base)
    IN  IF rest # None
        THEN \E i \in 1..Len(rest[1]) : is_hidden_component(rest[1][i])
        ELSE is_hidden_path(path)

(***************************************************************************)
(* The filesystem: a fixed tree, ignore files and .git entries that vary.  *)
(***************************************************************************)
\* the directories of the tree
Dirs == {ROOT, <<D>>, <<D, D>>, <<D, H>>}

\* the regular files of the tree (ignore files and .git are held apart)
Files == {<<D, F>>, <<D, D, F>>, <<D, H, F>>, <<F>>, <<H>>}

\* the directories that may hold ignore files or a .git entry
IgnDirs == {ROOT, <<D>>, <<D, D>>}

\* the paths handed to should_include
Candidates == (Dirs \cup Files) \ {ROOT, <<D, H>>}

\* fs::symlink_metadata(path).map(|m| m.is_dir()).unwrap_or(false)
IsDir(path) == path \in Dirs

\* kinds of per-directory ignore file: .fdignore, .ignore, .gitignore, and the
\* .git/info/exclude of a directory
Kinds == {"fd", "ig", "git", "info"}

\* what the entry dir/<file of kind> is when it exists: a regular file that
\* can be read, a regular file whose read fails, or a directory
EntryStates == {"file", "unreadable", "dir"}

\* the content of dir/<file of kind>: None when it is no regular file
\* (p.is_file() is false for a missing entry and for a directory)
FileAt(f, kind, dir) ==
    IF dir \in DOMAIN f[kind] /\ f.entry[kind][dir] # "dir"
    THEN f[kind][dir]
    ELSE None

\* a builder that keeps the lines of a file it could not read
Lines_ReadsAnyway(f, kind, dir) == FileAt(f, kind, dir)[1]

\* the lines builder.add(&p) adds for a regular file: none when the read
\* fails (the error is dropped by  let _ = builder.add(&p))
Lines(f, kind, dir) ==
    IF f.entry[kind][dir] = "unreadable"
    THEN <<>>
    ELSE FileAt(f, kind, dir)[1]

\* a repository test that settles for the .git directory
HeadIsFile_GitDirSuffices(f, dir) == dir \in DOMAIN f.head /\ f.head[dir] # "absent"

\* dir.join(".git").join("HEAD").is_file(): f.head[dir] is "absent" (no .git),
\* "dir" (a .git directory without HEAD) or "head" (.git/HEAD is a regular file)
HeadIsFile(f, dir) == dir \in DOMAIN f.head /\ f.head[dir] = "head"

(***************************************************************************)
(* Compiled matchers (crate ignore, Gitignore): [root, pats]; a pattern is *)
(* [name, white, dirOnly], the line  [!]name[/]  of an ignore file.        *)
(***************************************************************************)
Names == {D, F}

\* the lines  d, !d, f, !f  (every entry named d of the tree is a directory
\* and every entry named f a file, so a trailing / adds no behaviour here)
Patterns == [name : Names, white : BOOLEAN, dirOnly : {FALSE}]

\* GitignoreBuilder::new(root) + add(file) + build()
BuildMatcher(root, pats) == [root |-> root, pats |-> pats]

\* Gitignore::empty()
EmptyMatcher == [root |-> ROOT, pats |-> <<>>]

\* Gitignore::strip: the candidate relative to the matcher's root
Strip(root, path) == IF StartsWith(path, root) THEN StripPrefix(path, root)[1] ELSE path

\* a slash-free pattern compiles to **/name: it matches the last component
GlobMatches(pat, rel) == rel # <<>> /\ rel[Len(rel)] = pat.name

\* Matched that lets a directory-only pattern match any entry
Matched_DirOnlyMatchesFiles(gi, path, is_dir) ==
    LET rel  == Strip(gi.root, path)
        hits == {i \in 1..Len(gi.pats) : GlobMatches(gi.pats[i], rel)}
    IN  IF hits = {}
        THEN "None"
        ELSE LET i == CHOOSE j \in hits : \A k \in hits : k <= j
             IN  IF gi.pats[i].white THEN "Whitelist" ELSE "Ignore"

\* Gitignore::matched(path, is_dir): the last matching pattern decides
Matched(gi, path, is_dir) ==
    LET rel  == Strip(gi.root, path)
        hits == {i \in 1..Len(gi.pats) :
                    /\ GlobMatches(gi.pats[i], rel)
                    /\ (~gi.pats[i].dirOnly \/ is_dir)}
    IN  IF hits = {}
        THEN "None"
        ELSE LET i == CHOOSE j \in hits : \A k \in hits : k <= j
             IN  IF gi.pats[i].white THEN "Whitelist" ELSE "Ignore"

match_to_decision(m) ==
    CASE m = "Ignore" -> Some("Ignore")
      [] m = "Whitelist" -> Some("Whitelist")
      [] OTHER -> None

\* IgnoreDecision::include
Include(dec) == dec = "Whitelist"

(***************************************************************************)
(* The caches.  St is the Filter's mutable part as one record.             *)
(***************************************************************************)
\* HashMap::new(): m[k] is m.get(k), None for a key never inserted
EmptyMap == [k \in Dirs |-> None]

\* HashMap::contains_key
ContainsKey(m, k) == m[k] # None

\* HashMap::insert
Insert(m, k, v) == [m EXCEPT ![k] = Some(v)]

EmptySt == [walk |-> EmptyMap, repo |-> EmptyMap, fd |-> EmptyMap,
            ig |-> EmptyMap, git |-> EmptyMap, info |-> EmptyMap]

St == [walk |-> dir_walkable_cache, repo |-> repo_root_cache,
       fd |-> fdignore_by_dir, ig |-> ignore_by_dir,
       git |-> gitignore_by_dir, info |-> info_exclude_by_repo]

\* let v = ...; body: the value v is computed once and named in body
Bind(v, body(_)) == body(v)

\* get_or_build_ignore_file that reads the file on every lookup
get_or_build_ignore_file_Reprobes(f, st, dir, kind) ==
    Bind(LET p  == FileAt(f, kind, dir)
             gi == IF p # None
                   THEN Some(BuildMatcher(dir, Lines(f, kind, dir)))
                   ELSE None
         IN  [st EXCEPT ![kind] = Insert(@, dir, gi)],
         LAMBDA st1 : [gi |-> st1[kind][dir][1], st |-> st1])

\* get_or_build_ignore_file on the cache st[kind]
get_or_build_ignore_file(f, st, dir, kind) ==
    Bind(IF ContainsKey(st[kind], dir)
         THEN st
         ELSE LET p  == FileAt(f, kind, dir)
                  gi == IF p # None
                        THEN Some(BuildMatcher(dir, Lines(f, kind, dir)))
                        ELSE None
              IN  [st EXCEPT ![kind] = Insert(@, dir, gi)],
         LAMBDA st1 : [gi |-> st1[kind][dir][1], st |-> st1])

build_info_exclude_matcher(f, repo_root) ==
    LET exclude == FileAt(f, "info", repo_root)
    IN  IF exclude = None
        THEN EmptyMatcher
        ELSE BuildMatcher(repo_root, Lines(f, "info", repo_root))

info_exclude_for_repo(f, st, repo_root) ==
    Bind(IF ContainsKey(st.info, repo_root)
         THEN st
         ELSE [st EXCEPT !.info =
                  Insert(@, repo_root, build_info_exclude_matcher(f, repo_root))],
         LAMBDA st1 : [gi |-> st1.info[repo_root][1], st |-> st1])

(***************************************************************************)
(* The repository-root locator.                                            *)
(***************************************************************************)
RECURSIVE InsertAll(_, _, _)
\* for v in visited { cache.insert(v, root) }
InsertAll(cache, visited, root) ==
    IF visited = <<>>
    THEN cache
    ELSE InsertAll(Insert(cache, Head(visited), root), Tail(visited), root)

RECURSIVE RepoRootLoopForgets(_, _, _, _)
\* RepoRootLoop that, stopping at a cached ancestor, records "no repository"
\* for the directories it walked
RepoRootLoopForgets(f, cache, cur, visited) ==
    IF ContainsKey(cache, cur)
    THEN [root |-> cache[cur][1], cache |-> InsertAll(cache, visited, None)]
    ELSE LET v2 == Append(visited, cur)
         IN  IF HeadIsFile(f, cur)
             THEN [root |-> Some(cur), cache |-> InsertAll(cache, v2, Some(cur))]
             ELSE IF Parent(cur) = None
                  THEN [root |-> None, cache |-> InsertAll(cache, v2, None)]
                  ELSE RepoRootLoopForgets(f, cache, Parent(cur)[1], v2)

RECURSIVE RepoRootLoopReprobes(_, _, _, _)
\* RepoRootLoop that never trusts the cache: it probes .git/HEAD again and
\* overwrites what was recorded
RepoRootLoopReprobes(f, cache, cur, visited) ==
    LET v2 == Append(visited, cur)
    IN  IF HeadIsFile(f, cur)
        THEN [root |-> Some(cur), cache |-> InsertAll(cache, v2, Some(cur))]
        ELSE IF Parent(cur) = None
             THEN [root |-> None, cache |-> InsertAll(cache, v2, None)]
             ELSE RepoRootLoopReprobes(f, cache, Parent(cur)[1], v2)

RECURSIVE RepoRootLoop_SkipsSelf(_, _, _, _)
\* RepoRootLoop that looks for .git/HEAD in the ancestors only, not in the
\* directory it starts from
RepoRootLoop_SkipsSelf(f, cache, cur, visited) ==
    IF ContainsKey(cache, cur)
    THEN [root |-> cache[cur][1], cache |-> InsertAll(cache, visited, cache[cur][1])]
    ELSE LET v2 == Append(visited, cur)
         IN  IF visited # <<>> /\ HeadIsFile(f, cur)
             THEN [root |-> Some(cur), cache |-> InsertAll(cache, v2, Some(cur))]
             ELSE IF Parent(cur) = None
                  THEN [root |-> None, cache |-> InsertAll(cache, v2, None)]
                  ELSE RepoRootLoop_SkipsSelf(f, cache, Parent(cur)[1], v2)

RECURSIVE RepoRootLoop_CachesStartOnly(_, _, _, _)
\* RepoRootLoop that records the answer for the directory it started from
\* and for no other directory it visited
RepoRootLoop_CachesStartOnly(f, cache, cur, visited) ==
    IF ContainsKey(cache, cur)
    THEN [root |-> cache[cur][1],
          cache |-> InsertAll(cache, SubSeq(visited, 1, 1), cache[cur][1])]
    ELSE LET v2 == Append(visited, cur)
         IN  IF HeadIsFile(f, cur)
             THEN [root |-> Some(cur),
                   cache |-> InsertAll(cache, SubSeq(v2, 1, 1), Some(cur))]
             ELSE IF Parent(cur) = None
                  THEN [root |-> None, cache |-> InsertAll(cache, SubSeq(v2, 1, 1), None)]
                  ELSE RepoRootLoop_CachesStartOnly(f, cache, Parent(cur)[1], v2)

RECURSIVE RepoRootLoop(_, _, _, _)
RepoRootLoop(f, cache, cur, visited) ==
    IF ContainsKey(cache, cur)
    THEN [root |-> cache[cur][1], cache |-> InsertAll(cache, visited, cache[cur][1])]
    ELSE LET v2 == Append(visited, cur)
         IN  IF HeadIsFile(f, cur)
             THEN [root |-> Some(cur), cache |-> InsertAll(cache, v2, Some(cur))]
             ELSE IF Parent(cur) = None
                  THEN [root |-> None, cache |-> InsertAll(cache, v2, None)]
                  ELSE RepoRootLoop(f, cache, Parent(cur)[1], v2)

repo_root_for_dir(f, st, dir) ==
    Bind(RepoRootLoop(f, st.repo, dir, <<>>),
         LAMBDA r : [root |-> r.root, st |-> [st EXCEPT !.repo = r.cache]])

(***************************************************************************)
(* The ignore layers.  Each returns [dec, st]: an Option<IgnoreDecision>   *)
(* and the caches after the call.                                          *)
(***************************************************************************)
\* the matcher's decision on the path, None when there is no matcher
DecisionOf(gi, path, is_dir) ==
    IF gi # None
    THEN match_to_decision(Matched(gi[1], path, is_dir))
    ELSE None

RECURSIVE match_from_ancestors_StopsAtBase(_, _, _, _, _, _)
\* an upward walk that ends at the search base
match_from_ancestors_StopsAtBase(f, st, path, is_dir, cur, kind) ==
    Bind(get_or_build_ignore_file(f, st, cur, kind), LAMBDA g :
    Bind(DecisionOf(g.gi, path, is_dir), LAMBDA dec :
        IF dec # None
        THEN [dec |-> dec, st |-> g.st]
        ELSE IF Parent(cur) = None \/ cur = SearchBase
             THEN [dec |-> None, st |-> g.st]
             ELSE match_from_ancestors_StopsAtBase(f, g.st, path, is_dir,
                                                   Parent(cur)[1], kind)))

RECURSIVE match_from_ancestors(_, _, _, _, _, _)
\* std::iter::successors(Some(start), |p| p.parent()): cur runs up to "/"
match_from_ancestors(f, st, path, is_dir, cur, kind) ==
    Bind(get_or_build_ignore_file(f, st, cur, kind), LAMBDA g :
    Bind(DecisionOf(g.gi, path, is_dir), LAMBDA dec :
        IF dec # None
        THEN [dec |-> dec, st |-> g.st]
        ELSE IF Parent(cur) = None
             THEN [dec |-> None, st |-> g.st]
             ELSE match_from_ancestors(f, g.st, path, is_dir, Parent(cur)[1], kind)))

match_fdignore(f, st, path, is_dir, start) ==
    match_from_ancestors(f, st, path, is_dir, start, "fd")

match_dot_ignore(f, st, path, is_dir, start) ==
    match_from_ancestors(f, st, path, is_dir, start, "ig")

RECURSIVE GitignoreLoop_ToFsRoot(_, _, _, _, _, _)
\* GitignoreLoop that walks on above the repository root
GitignoreLoop_ToFsRoot(f, st, path, is_dir, cur, repo_root) ==
    Bind(get_or_build_ignore_file(f, st, cur, "git"), LAMBDA g :
    Bind(DecisionOf(g.gi, path, is_dir), LAMBDA dec :
        IF dec # None
        THEN [dec |-> dec, st |-> g.st]
        ELSE IF Parent(cur) = None
             THEN [dec |-> None, st |-> g.st]
             ELSE GitignoreLoop_ToFsRoot(f, g.st, path, is_dir, Parent(cur)[1], repo_root)))

RECURSIVE GitignoreLoop(_, _, _, _, _, _)
\* the loop of match_git_ignores: closest .gitignore first, up to repo_root
GitignoreLoop(f, st, path, is_dir, cur, repo_root) ==
    Bind(get_or_build_ignore_file(f, st, cur, "git"), LAMBDA g :
    Bind(DecisionOf(g.gi, path, is_dir), LAMBDA dec :
        IF dec # None
        THEN [dec |-> dec, st |-> g.st]
        ELSE IF cur = repo_root \/ Parent(cur) = None
             THEN [dec |-> None, st |-> g.st]
             ELSE GitignoreLoop(f, g.st, path, is_dir, Parent(cur)[1], repo_root)))

\* the tail of match_git_ignores inside a repository: info/exclude, then the
\* global VCS matcher
RepoLayers(f, c, st, path, is_dir, repo_root) ==
    Bind(info_exclude_for_repo(f, st, repo_root), LAMBDA info :
    Bind(match_to_decision(Matched(info.gi, path, is_dir)), LAMBDA d4 :
        IF d4 # None
        THEN [dec |-> d4, st |-> info.st]
        ELSE [dec |-> match_to_decision(Matched(c.global_gitignore, path, is_dir)),
              st  |-> info.st]))

\* match_git_ignores that consults the global VCS matcher outside a repository
match_git_ignores_GlobalAnywhere(f, c, st, path, is_dir, parent_dir) ==
    Bind(repo_root_for_dir(f, st, parent_dir), LAMBDA rr :
        IF rr.root = None
        THEN [dec |-> match_to_decision(Matched(c.global_gitignore, path, is_dir)),
              st  |-> rr.st]
        ELSE Bind(GitignoreLoop(f, rr.st, path, is_dir, parent_dir, rr.root[1]),
                  LAMBDA w :
                      IF w.dec # None
                      THEN w
                      ELSE RepoLayers(f, c, w.st, path, is_dir, rr.root[1])))

match_git_ignores(f, c, st, path, is_dir, parent_dir) ==
    Bind(repo_root_for_dir(f, st, parent_dir), LAMBDA rr :
        IF rr.root = None
        THEN [dec |-> None, st |-> rr.st]
        ELSE Bind(GitignoreLoop(f, rr.st, path, is_dir, parent_dir, rr.root[1]),
                  LAMBDA w :
                      IF w.dec # None
                      THEN w
                      ELSE RepoLayers(f, c, w.st, path, is_dir, rr.root[1])))

match_global_fd_ignore(c, st, path, is_dir) ==
    IF c.global_fd_ignore = None
    THEN [dec |-> None, st |-> st]
    ELSE [dec |-> match_to_decision(Matched(c.global_fd_ignore[1], path, is_dir)),
          st |-> st]

(***************************************************************************)
(* The decision engine.  Each operator returns [res, st].                  *)
(***************************************************************************)
\* `if let Some(decision) = layer { return decision.include(); }`, else the
\* rest of the function
OrElse(l, rest(_)) ==
    IF l.dec # None
    THEN [res |-> Include(l.dec[1]), st |-> l.st]
    ELSE rest(l.st)

\* is_entry_included with the git layers asked before .ignore
is_entry_included_GitBeforeIgnore(f, c, st, path, is_dir, parent_dir) ==
    OrElse(match_fdignore(f, st, path, is_dir, parent_dir), LAMBDA s1 :
    OrElse(match_git_ignores(f, c, s1, path, is_dir, parent_dir), LAMBDA s2 :
    OrElse(match_dot_ignore(f, s2, path, is_dir, parent_dir), LAMBDA s3 :
    OrElse(match_global_fd_ignore(c, s3, path, is_dir), LAMBDA s4 :
        [res |-> TRUE, st |-> s4]))))

\* is_entry_included with the global tool matcher asked before the git layers
is_entry_included_GlobalFdBeforeGit(f, c, st, path, is_dir, parent_dir) ==
    OrElse(match_fdignore(f, st, path, is_dir, parent_dir), LAMBDA s1 :
    OrElse(match_dot_ignore(f, s1, path, is_dir, parent_dir), LAMBDA s2 :
    OrElse(match_global_fd_ignore(c, s2, path, is_dir), LAMBDA s3 :
    OrElse(match_git_ignores(f, c, s3, path, is_dir, parent_dir), LAMBDA s4 :
        [res |-> TRUE, st |-> s4]))))

is_entry_included(f, c, st, path, is_dir, parent_dir) ==
    OrElse(match_fdignore(f, st, path, is_dir, parent_dir), LAMBDA s1 :
    OrElse(match_dot_ignore(f, s1, path, is_dir, parent_dir), LAMBDA s2 :
    OrElse(match_git_ignores(f, c, s2, path, is_dir, parent_dir), LAMBDA s3 :
    OrElse(match_global_fd_ignore(c, s3, path, is_dir), LAMBDA s4 :
        [res |-> TRUE, st |-> s4]))))

\* is_dir_walkable_uncached for which -H makes every directory walkable
is_dir_walkable_uncached_HiddenSkipsIgnores(f, c, st, dir) ==
    IF c.include_hidden
    THEN [res |-> TRUE, st |-> st]
    ELSE IF is_hidden_under_base(dir, c.search_base)
         THEN [res |-> FALSE, st |-> st]
         ELSE IF ~c.ignore_enabled
              THEN [res |-> TRUE, st |-> st]
              ELSE is_entry_included(f, c, st, dir, TRUE, ParentOrSelf(dir))

\* is_dir_walkable_uncached that asks the ignore layers whatever -I says
is_dir_walkable_uncached_IgnoresAlways(f, c, st, dir) ==
    IF ~c.include_hidden /\ is_hidden_under_base(dir, c.search_base)
    THEN [res |-> FALSE, st |-> st]
    ELSE is_entry_included(f, c, st, dir, TRUE, ParentOrSelf(dir))

is_dir_walkable_uncached(f, c, st, dir) ==
    IF ~c.include_hidden /\ is_hidden_under_base(dir, c.search_base)
    THEN [res |-> FALSE, st |-> st]
    ELSE IF ~c.ignore_enabled
         THEN [res |-> TRUE, st |-> st]
         ELSE is_entry_included(f, c, st, dir, TRUE, ParentOrSelf(dir))

RECURSIVE WalkScan_PastBase(_, _, _, _)
\* an upward loop that does not stop at the search base
WalkScan_PastBase(c, cache, cur, missing) ==
    IF ContainsKey(cache, cur)
    THEN [neg |-> ~cache[cur][1], missing |-> missing]
    ELSE LET m2 == Append(missing, cur)
         IN  IF Parent(cur) = None
             THEN [neg |-> FALSE, missing |-> m2]
             ELSE WalkScan_PastBase(c, cache, Parent(cur)[1], m2)

RECURSIVE WalkScan(_, _, _, _)
\* the upward loop of is_walkable_to: [neg, missing]
WalkScan(c, cache, cur, missing) ==
    IF ContainsKey(cache, cur)
    THEN [neg |-> ~cache[cur][1], missing |-> missing]
    ELSE LET m2 == Append(missing, cur)
         IN  IF cur = c.search_base \/ Parent(cur) = None
             THEN [neg |-> FALSE, missing |-> m2]
             ELSE WalkScan(c, cache, Parent(cur)[1], m2)

\* self.dir_walkable_cache.insert(d.clone(), ok)
CacheWalkable(ok, d) == [ok.st EXCEPT !.walk = Insert(@, d, ok.res)]

RECURSIVE WalkFillKeepsGoing(_, _, _, _, _)
\* WalkFill without the early return on a directory that is not walkable
WalkFillKeepsGoing(f, c, st, missing, i) ==
    IF i = 0
    THEN [res |-> TRUE, st |-> st]
    ELSE Bind(is_dir_walkable_uncached(f, c, st, missing[i]), LAMBDA ok :
             WalkFillKeepsGoing(f, c, CacheWalkable(ok, missing[i]), missing, i - 1))

RECURSIVE WalkFillCachesBelow(_, _, _, _, _)
\* WalkFill that, on a failure, records the deeper missing directories too
WalkFillCachesBelow(f, c, st, missing, i) ==
    IF i = 0
    THEN [res |-> TRUE, st |-> st]
    ELSE Bind(is_dir_walkable_uncached(f, c, st, missing[i]), LAMBDA ok :
             IF ~ok.res
             THEN [res |-> FALSE,
                   st  |-> [CacheWalkable(ok, missing[i]) EXCEPT !.walk =
                              [k \in Dirs |->
                                 IF \E j \in 1..(i - 1) : missing[j] = k
                                 THEN Some(TRUE)
                                 ELSE @[k]]]]
             ELSE WalkFillCachesBelow(f, c, CacheWalkable(ok, missing[i]),
                                      missing, i - 1))

RECURSIVE WalkFillLeafOnly(_, _, _, _, _)
\* WalkFill that records only the container itself, not the directories above
WalkFillLeafOnly(f, c, st, missing, i) ==
    IF i = 0
    THEN [res |-> TRUE, st |-> st]
    ELSE Bind(is_dir_walkable_uncached(f, c, st, missing[i]), LAMBDA ok :
             IF ~ok.res
             THEN [res |-> FALSE, st |-> CacheWalkable(ok, missing[i])]
             ELSE WalkFillLeafOnly(f, c,
                      IF i = 1 THEN CacheWalkable(ok, missing[i]) ELSE ok.st,
                      missing, i - 1))

RECURSIVE WalkFill_RefusesBelow(_, _, _, _, _)
\* WalkFill that, on a failure, records the deeper missing directories as
\* not walkable
WalkFill_RefusesBelow(f, c, st, missing, i) ==
    IF i = 0
    THEN [res |-> TRUE, st |-> st]
    ELSE Bind(is_dir_walkable_uncached(f, c, st, missing[i]), LAMBDA ok :
             IF ~ok.res
             THEN [res |-> FALSE,
                   st  |-> [CacheWalkable(ok, missing[i]) EXCEPT !.walk =
                              [k \in Dirs |->
                                 IF \E j \in 1..(i - 1) : missing[j] = k
                                 THEN Some(FALSE)
                                 ELSE @[k]]]]
             ELSE WalkFill_RefusesBelow(f, c, CacheWalkable(ok, missing[i]),
                                        missing, i - 1))

RECURSIVE WalkFill(_, _, _, _, _)
\* for d in missing.iter().rev(): i runs from Len(missing) down to 1
WalkFill(f, c, st, missing, i) ==
    IF i = 0
    THEN [res |-> TRUE, st |-> st]
    ELSE Bind(is_dir_walkable_uncached(f, c, st, missing[i]), LAMBDA ok :
             IF ~ok.res
             THEN [res |-> FALSE, st |-> CacheWalkable(ok, missing[i])]
             ELSE WalkFill(f, c, CacheWalkable(ok, missing[i]), missing, i - 1))

\* is_walkable_to without the defensive test for containers outside the base
is_walkable_to_NoBaseGuard(f, c, st, path, is_dir) ==
    Bind(WalkScan(c, st.walk, IF is_dir THEN path ELSE ParentOrSelf(path), <<>>),
         LAMBDA scan :
             IF scan.neg
             THEN [res |-> FALSE, st |-> st]
             ELSE WalkFill(f, c, st, scan.missing, Len(scan.missing)))

is_walkable_to(f, c, st, path, is_dir) ==
    LET container == IF is_dir THEN path ELSE ParentOrSelf(path)
    IN  IF ~StartsWith(container, c.search_base)
        THEN [res |-> TRUE, st |-> st]
        ELSE Bind(WalkScan(c, st.walk, container, <<>>), LAMBDA scan :
                 IF scan.neg
                 THEN [res |-> FALSE, st |-> st]
                 ELSE WalkFill(f, c, st, scan.missing, Len(scan.missing)))

\* a should_include that tests the hidden predicate after the walkability
should_include_HiddenLast(f, c, st, path) ==
    Bind(is_walkable_to(f, c, st, path, IsDir(path)), LAMBDA w :
        IF ~w.res
        THEN [res |-> FALSE, st |-> w.st]
        ELSE IF ~c.include_hidden /\ is_hidden_under_base(path, c.search_base)
             THEN [res |-> FALSE, st |-> w.st]
             ELSE IF ~c.ignore_enabled
                  THEN [res |-> TRUE, st |-> w.st]
                  ELSE is_entry_included(f, c, w.st, path, IsDir(path),
                                         ParentOrSelf(path)))

\* a should_include that asks the ignore layers whatever -I says
should_include_LayersAlways(f, c, st, path) ==
    IF ~c.include_hidden /\ is_hidden_under_base(path, c.search_base)
    THEN [res |-> FALSE, st |-> st]
    ELSE Bind(is_walkable_to(f, c, st, path, IsDir(path)), LAMBDA w :
             IF ~w.res
             THEN [res |-> FALSE, st |-> w.st]
             ELSE is_entry_included(f, c, w.st, path, IsDir(path),
                                    ParentOrSelf(path)))

\* a should_include that lets the error of a failed stat escape
should_include_StatErrorEscapes(f, c, st, path) ==
    IF path \notin Dirs \cup Files
    THEN [res |-> FALSE, st |-> st, err |-> "No such file or directory"]
    ELSE IF ~c.include_hidden /\ is_hidden_under_base(path, c.search_base)
         THEN [res |-> FALSE, st |-> st]
         ELSE Bind(is_walkable_to(f, c, st, path, IsDir(path)), LAMBDA w :
                  IF ~w.res
                  THEN [res |-> FALSE, st |-> w.st]
                  ELSE IF ~c.ignore_enabled
                       THEN [res |-> TRUE, st |-> w.st]
                       ELSE is_entry_included(f, c, w.st, path, IsDir(path),
                                              ParentOrSelf(path)))

should_include(f, c, st, path) ==
    IF ~c.include_hidden /\ is_hidden_under_base(path, c.search_base)
    THEN [res |-> FALSE, st |-> st]
    ELSE Bind(is_walkable_to(f, c, st, path, IsDir(path)), LAMBDA w :
             IF ~w.res
             THEN [res |-> FALSE, st |-> w.st]
             ELSE IF ~c.ignore_enabled
                  THEN [res |-> TRUE, st |-> w.st]
                  ELSE is_entry_included(f, c, w.st, path, IsDir(path),
                                         ParentOrSelf(path)))

(***************************************************************************)
(* Initial states: every filesystem and configuration within the bounds.   *)
(***************************************************************************)
\* where a pattern line can be written: an ignore file of a directory, or one
\* of the two global matchers (rooted at cwd)
Slots == [kind : {"git"}, dir : IgnDirs]
            \cup [kind : {"fd"}, dir : {ROOT, SearchBase}]
            \cup [kind : {"ig", "info", "ggit", "gfd"}, dir : {SearchBase}]

Rules == [slot : Slots, pat : Patterns]

RuleSeqs(max) == UNION {[1..n -> Rules] : n \in 0..max}

RECURSIVE PatsOf(_, _)
\* the pattern lines of one slot, in the order written
PatsOf(rs, slot) ==
    IF rs = <<>>
    THEN <<>>
    ELSE IF Head(rs).slot = slot
         THEN <<Head(rs).pat>> \o PatsOf(Tail(rs), slot)
         ELSE PatsOf(Tail(rs), slot)

\* the file of a slot: a regular file iff a line was written to it
FileOf(rs, kind, dir) ==
    LET ps == PatsOf(rs, [kind |-> kind, dir |-> dir])
    IN  IF ps = <<>> THEN None ELSE Some(ps)

HeadChoices(entries) ==
    {h \in [IgnDirs -> {"absent"} \cup entries] :
        Cardinality({d \in IgnDirs : h[d] # "absent"}) <= MaxRepos}

MakeFs(rs, h) ==
    [fd   |-> [d \in IgnDirs |-> FileOf(rs, "fd", d)],
     ig   |-> [d \in IgnDirs |-> FileOf(rs, "ig", d)],
     git  |-> [d \in IgnDirs |-> FileOf(rs, "git", d)],
     info |-> [d \in IgnDirs |-> FileOf(rs, "info", d)],
     head |-> h,
     entry |-> [k \in Kinds |-> [d \in IgnDirs |-> "file"]]]

\* Filter::new_with_globals(cfg, global_gitignore, global_fd_ignore)
MakeCfg(rs, hid, ign) ==
    LET gfd == PatsOf(rs, [kind |-> "gfd", dir |-> SearchBase])
    IN  [cwd              |-> SearchBase,
         search_base      |-> SearchBase,
         include_hidden   |-> hid,
         ignore_enabled   |-> ign,
         global_gitignore |->
             BuildMatcher(SearchBase, PatsOf(rs, [kind |-> "ggit", dir |-> SearchBase])),
         global_fd_ignore |->
             IF gfd = <<>> THEN None ELSE Some(BuildMatcher(SearchBase, gfd))]

\* the default invocation over a tree whose .git entries all have HEAD
FsCfgDefault ==
    \E rs \in RuleSeqs(MaxRules), h \in HeadChoices({"head"}) :
        /\ fs = MakeFs(rs, h)
        /\ cfg = MakeCfg(rs, FALSE, TRUE)

\* every combination of -H and -I; a .git directory may lack HEAD
FsCfgAnyFlags ==
    \E rs \in RuleSeqs(MaxRulesLight), h \in HeadChoices({"dir", "head"}),
       hid \in BOOLEAN, ign \in BOOLEAN :
        /\ fs = MakeFs(rs, h)
        /\ cfg = MakeCfg(rs, hid, ign)

\* the caches of Filter::new_with_globals
NewCaches ==
    /\ dir_walkable_cache = EmptyMap
    /\ repo_root_cache = EmptyMap
    /\ fdignore_by_dir = EmptyMap
    /\ ignore_by_dir = EmptyMap
    /\ gitignore_by_dir = EmptyMap
    /\ info_exclude_by_repo = EmptyMap

\* a path as written: absolute or relative, and its /-separated segments
RawPath(abs, segs) == [abs |-> abs, segs |-> segs]

NoProbe == [path |-> RawPath(TRUE, <<>>), base |-> RawPath(TRUE, <<>>), hidden |-> None]

\* no run of the program is in progress
NoRun == [pc |-> "none"]

Init ==
    /\ FsCfgDefault \/ FsCfgAnyFlags
    /\ NewCaches
    /\ marker_log = <<>>
    /\ filter_seen = 0
    /\ probe = NoProbe
    /\ proc = NoRun

\* one call filter.should_include(&path)
ShouldInclude(path) ==
    \E r \in {should_include(fs, cfg, St, path)} :
        /\ dir_walkable_cache' = r.st.walk
        /\ repo_root_cache' = r.st.repo
        /\ fdignore_by_dir' = r.st.fd
        /\ ignore_by_dir' = r.st.ig
        /\ gitignore_by_dir' = r.st.git
        /\ info_exclude_by_repo' = r.st.info
        /\ UNCHANGED <<fs, cfg, marker_log, filter_seen, probe, proc>>

Next == \E path \in Candidates : ShouldInclude(path)

Spec == Init /\ [][Next]_vars

(***************************************************************************)
(* The repository marker toggled under a running program: .git/HEAD is     *)
(* removed and written back, and a new Filter is constructed.              *)
(***************************************************************************)
MarkerEvent(op, dir) == [op |-> op, dir |-> dir]

\* fs::remove_file(root.join(".git/HEAD"))
RemoveHead(dir) ==
    /\ Len(marker_log) < MaxChanges
    /\ fs.head[dir] = "head"
    /\ fs' = [fs EXCEPT !.head[dir] = "dir"]
    /\ marker_log' = Append(marker_log, MarkerEvent("removed", dir))
    /\ UNCHANGED <<cfg, dir_walkable_cache, repo_root_cache, fdignore_by_dir,
                   ignore_by_dir, gitignore_by_dir, info_exclude_by_repo,
                   filter_seen, probe, proc>>

\* fs::write(root.join(".git/HEAD"), ...) in an existing .git directory
WriteHead(dir) ==
    /\ Len(marker_log) < MaxChanges
    /\ fs.head[dir] = "dir"
    /\ fs' = [fs EXCEPT !.head[dir] = "head"]
    /\ marker_log' = Append(marker_log, MarkerEvent("restored", dir))
    /\ UNCHANGED <<cfg, dir_walkable_cache, repo_root_cache, fdignore_by_dir,
                   ignore_by_dir, gitignore_by_dir, info_exclude_by_repo,
                   filter_seen, probe, proc>>

\* a NewFilter that keeps the repository roots the old Filter had found
NewFilterKeepsRepoRoots ==
    /\ filter_seen # Len(marker_log)
    /\ dir_walkable_cache' = EmptyMap
    /\ fdignore_by_dir' = EmptyMap
    /\ ignore_by_dir' = EmptyMap
    /\ gitignore_by_dir' = EmptyMap
    /\ info_exclude_by_repo' = EmptyMap
    /\ filter_seen' = Len(marker_log)
    /\ UNCHANGED <<fs, cfg, repo_root_cache, marker_log, probe, proc>>

\* let mut f = Filter::new_with_globals(...) with the same configuration,
\* after the filesystem changed
NewFilter ==
    /\ filter_seen # Len(marker_log)
    /\ dir_walkable_cache' = EmptyMap
    /\ repo_root_cache' = EmptyMap
    /\ fdignore_by_dir' = EmptyMap
    /\ ignore_by_dir' = EmptyMap
    /\ gitignore_by_dir' = EmptyMap
    /\ info_exclude_by_repo' = EmptyMap
    /\ filter_seen' = Len(marker_log)
    /\ UNCHANGED <<fs, cfg, marker_log, probe, proc>>

InitMut ==
    /\ FsCfgAnyFlags
    /\ NewCaches
    /\ marker_log = <<>>
    /\ filter_seen = 0
    /\ probe = NoProbe
    /\ proc = NoRun

NextMut ==
    \/ \E path \in Candidates : ShouldInclude(path)
    \/ \E dir \in IgnDirs : RemoveHead(dir)
    \/ \E dir \in IgnDirs : WriteHead(dir)
    \/ NewFilter

SpecMut == InitMut /\ [][NextMut]_vars

(***************************************************************************)
(* is_hidden_under_base applied to a path and a base as written.           *)
(***************************************************************************)
RootDir == <<"/">>

\* the segments a path or a base is written with: ".", "..", ".h", "h", "h."
Segments == {Dot, DotDot, H, <<"h">>, <<"h", ".">>}

RawPaths(max) ==
    {RawPath(abs, segs) : abs \in BOOLEAN, segs \in UNION {[1..n -> Segments] : n \in 0..max}}

\* Path::components: the root of an absolute path is a component of its
\* own; a "." segment is dropped unless it starts a relative path
Components(raw) ==
    LET keep(i) == raw.segs[i] # Dot \/ (i = 1 /\ ~raw.abs)
        idx     == {i \in 1..Len(raw.segs) : keep(i)}
        nth(k)  == CHOOSE i \in idx : Cardinality({j \in idx : j < i}) = k - 1
        kept    == [k \in 1..Cardinality(idx) |-> raw.segs[nth(k)]]
    IN  IF raw.abs THEN <<RootDir>> \o kept ELSE kept

InitHidden ==
    /\ fs = MakeFs(<<>>, [d \in IgnDirs |-> "absent"])
    /\ cfg = MakeCfg(<<>>, FALSE, TRUE)
    /\ NewCaches
    /\ marker_log = <<>>
    /\ filter_seen = 0
    /\ \E path \in RawPaths(MaxPathLen), base \in RawPaths(MaxBaseLen) :
          probe = [path |-> path, base |-> base, hidden |-> None]
    /\ proc = NoRun

\* is_hidden_under_base(path, base)
IsHiddenUnderBase ==
    /\ probe.hidden = None
    /\ probe' = [probe EXCEPT !.hidden =
                    Some(is_hidden_under_base(Components(probe.path),
                                              Components(probe.base)))]
    /\ UNCHANGED <<fs, cfg, dir_walkable_cache, repo_root_cache, fdignore_by_dir,
                   ignore_by_dir, gitignore_by_dir, info_exclude_by_repo,
                   marker_log, filter_seen, proc>>

NextHidden == IsHiddenUnderBase

SpecHidden == InitHidden /\ [][NextHidden]_vars

(***************************************************************************)
(* One run of the program: main and run (src/src/main.rs), mdfind::run     *)
(* (src/src/mdfind.rs) and the output style (src/src/output.rs).  A string *)
(* of bytes (OsString, the child's stdout, the program's stdout) is a      *)
(* sequence of one-character strings; the NUL byte is written "NUL".       *)
(***************************************************************************)
\* the number of records on the child's stdout
MaxRecords == 2

NUL == "NUL"

CR == "\r"

LF == "\n"

Slash == "/"

RECURSIVE RelBytes(_)
\* the bytes of a relative path: its components joined by "/"
RelBytes(comps) ==
    IF comps = <<>>
    THEN <<>>
    ELSE IF Len(comps) = 1
         THEN Head(comps)
         ELSE Head(comps) \o <<Slash>> \o RelBytes(Tail(comps))

\* the bytes of the absolute path with these components
AbsBytes(comps) == <<Slash>> \o RelBytes(comps)

RECURSIVE SplitSegs(_, _)
\* the /-separated segments of a byte string; empty segments are dropped
SplitSegs(bytes, cur) ==
    IF bytes = <<>>
    THEN IF cur = <<>> THEN <<>> ELSE <<cur>>
    ELSE IF Head(bytes) = Slash
         THEN IF cur = <<>>
              THEN SplitSegs(Tail(bytes), <<>>)
              ELSE <<cur>> \o SplitSegs(Tail(bytes), <<>>)
         ELSE SplitSegs(Tail(bytes), Append(cur, Head(bytes)))

\* Path::new(bytes): absolute iff it starts with "/"
ParseRaw(bytes) ==
    RawPath(bytes # <<>> /\ Head(bytes) = Slash, SplitSegs(bytes, <<>>))

\* Path::is_absolute
is_absolute(bytes) == bytes # <<>> /\ Head(bytes) = Slash

\* the components of an absolute path below the root, as the Filter sees them
FilterPath(bytes) == Tail(Components(ParseRaw(bytes)))

\* PathBuf::join: an absolute right-hand side replaces the left
join(p, rel) ==
    IF is_absolute(rel)
    THEN rel
    ELSE IF p = <<>>
         THEN rel
         ELSE IF p[Len(p)] = Slash THEN p \o rel ELSE p \o <<Slash>> \o rel

\* strip_prefix_or_abs(path, base).  The tail is written from the components
\* left after the prefix; the paths stripped here have no "." segment and no
\* doubled separator below the prefix, so it is the byte string
\* Path::strip_prefix returns.
strip_prefix_or_abs(path, base) ==
    LET pc == Components(ParseRaw(path))
        bc == Components(ParseRaw(base))
    IN  IF StartsWith(pc, bc)
        THEN IF Len(pc) = Len(bc)
             THEN <<".">>
             ELSE RelBytes(SubSeq(pc, Len(bc) + 1, Len(pc)))
        ELSE path

\* OutputStyle::new(cwd, search_base, path_arg)
OutputStyle(cwd, search_base, path_arg) ==
    [cwd |-> cwd, search_base |-> search_base, path_arg |-> path_arg]

\* a render that prints the tail without the path argument
render_DropsPathArg(style, abs_path) ==
    IF style.path_arg = None
    THEN strip_prefix_or_abs(abs_path, style.cwd)
    ELSE IF is_absolute(style.path_arg[1])
         THEN abs_path
         ELSE strip_prefix_or_abs(abs_path, style.search_base)

\* OutputStyle::render(abs_path)
render(style, abs_path) ==
    IF style.path_arg = None
    THEN strip_prefix_or_abs(abs_path, style.cwd)
    ELSE IF is_absolute(style.path_arg[1])
         THEN abs_path
         ELSE Bind(strip_prefix_or_abs(abs_path, style.search_base), LAMBDA rel :
                  IF rel = <<>> \/ Components(ParseRaw(rel)) = <<Dot>>
                  THEN style.path_arg[1]
                  ELSE join(style.path_arg[1], rel))

\* the base directory of make_absolute_dir(cwd, path), before it is stat'ed
make_absolute_dir(cwd, path) ==
    IF path = None
    THEN cwd
    ELSE IF is_absolute(path[1]) THEN path[1] ELSE join(cwd, path[1])

\* Delimiter::Newline and Delimiter::Nul
Delimiters == {"Newline", "Nul"}

\* a write_path that puts the newest path first
write_path_Prepends(out, path, delim) ==
    path \o (IF delim = "Newline" THEN <<LF>> ELSE <<NUL>>) \o out

\* write_path(out, path, delim) when both writes succeed
write_path(out, path, delim) ==
    out \o path \o (IF delim = "Newline" THEN <<LF>> ELSE <<NUL>>)

\* Path::file_name: the last component when it is a normal one
file_name(bytes) ==
    LET comps == Components(ParseRaw(bytes))
    IN  IF comps = <<>> \/ comps[Len(comps)] \in {RootDir, Dot, DotDot}
        THEN None
        ELSE Some(comps[Len(comps)])

\* str::contains
Contains(hay, needle) ==
    /\ Len(needle) <= Len(hay)
    /\ \E i \in 1..(Len(hay) + 1 - Len(needle)) :
          SubSeq(hay, i, i + Len(needle) - 1) = needle

\* RustMatcher::CaseSensitiveSubstring { needle }.matches(path)
matches(needle, bytes) ==
    file_name(bytes) # None /\ Contains(file_name(bytes)[1], needle)

\* plan.rust_matcher.as_ref().is_none_or(|m| m.matches(&path))
MatcherAccepts(plan, bytes) ==
    plan.rust_matcher = None \/ matches(plan.rust_matcher[1], bytes)

\* reader.read_until(b'\0', &mut buf): the bytes up to and including the
\* first NUL, or all that is left; n is the number of bytes read
read_until(stream) ==
    LET nuls == {i \in 1..Len(stream) : stream[i] = NUL}
        n    == IF nuls = {}
                THEN Len(stream)
                ELSE CHOOSE i \in nuls : \A j \in nuls : i <= j
    IN  [n |-> n, buf |-> SubSeq(stream, 1, n), rest |-> SubSeq(stream, n + 1, Len(stream))]

RECURSIVE StripTrailing(_)
\* while matches!(buf.last(), Some(b'\0' | b'\r')) { buf.pop(); }
StripTrailing(buf) ==
    IF buf # <<>> /\ buf[Len(buf)] \in {NUL, CR}
    THEN StripTrailing(SubSeq(buf, 1, Len(buf) - 1))
    ELSE buf

\* the causes of an anyhow::Error, outermost first
\* (detail is what Display prints for the cause, as a sequence of words)
Io(kind) == [type |-> "io", detail |-> <<kind>>]

Msg(text) == [type |-> "msg", detail |-> <<text>>]

MdfindNotFound == [type |-> "MdfindNotFound", detail |-> <<"mdfind not found">>]

Ok == [ok |-> TRUE, chain |-> <<>>]

Err(chain) == [ok |-> FALSE, chain |-> chain]

\* the error of a spawn that always wraps the io::Error
spawn_error_Generic(kind) == Err(<<Msg("failed to spawn mdfind"), Io(kind)>>)

\* .map_err(|e| if e.kind() == NotFound { MdfindNotFound } else { e })
\* .context("failed to spawn mdfind")
spawn_error(kind) ==
    IF kind = "NotFound"
    THEN Err(<<Msg("failed to spawn mdfind"), MdfindNotFound>>)
    ELSE Err(<<Msg("failed to spawn mdfind"), Io(kind)>>)

\* the exit statuses of the child
Statuses == {"exit status: 0", "exit status: 1", "signal: 9"}

\* ExitStatus::success
success(status) == status = "exit status: 0"

\* an end of mdfind::run that does not look at the status
wait_result_IgnoresStatus(status) == Ok

\* the end of mdfind::run once child.wait() returned a status
wait_result(status) ==
    IF success(status)
    THEN Ok
    ELSE Err(<<[type |-> "msg", detail |-> <<"mdfind exited with status", status>>]>>)

is_broken_pipe(err) ==
    \E i \in 1..Len(err.chain) : err.chain[i] = Io("BrokenPipe")

is_mdfind_not_found(err) ==
    \E i \in 1..Len(err.chain) : err.chain[i].type = "MdfindNotFound"

\* eprintln!("{err:#}"): the causes of the chain on one line
Alternate(err) == [i \in 1..Len(err.chain) |-> err.chain[i].detail]

\* eprintln!("sf requires macOS Spotlight")
SpotlightLine == <<<<"sf requires macOS Spotlight">>>>

\* a main that reports a broken pipe like any other error
main_exit_NoPipeCheck(result) ==
    IF result.ok
    THEN [exit_code |-> 0, stderr |-> <<>>]
    ELSE IF is_mdfind_not_found(result)
         THEN [exit_code |-> 1, stderr |-> <<SpotlightLine>>]
         ELSE [exit_code |-> 1, stderr |-> <<Alternate(result)>>]

\* main (target_os = "macos"): the exit code and what is printed on stderr
main_exit(result) ==
    IF result.ok
    THEN [exit_code |-> 0, stderr |-> <<>>]
    ELSE IF is_broken_pipe(result)
         THEN [exit_code |-> 0, stderr |-> <<>>]
         ELSE IF is_mdfind_not_found(result)
              THEN [exit_code |-> 1, stderr |-> <<SpotlightLine>>]
              ELSE [exit_code |-> 1, stderr |-> <<Alternate(result)>>]

\* the io::Error kinds of a failed write to stdout
WriteErrors == {"BrokenPipe", "Other"}

\* the errors run returns before mdfind::run is called
SetupErrors ==
    {<<Msg("failed to read current directory"), Io("NotFound")>>,
     <<Msg("path is not a directory")>>,
     <<Msg("path does not exist")>>,
     <<Msg("failed to stat path"), Io("PermissionDenied")>>}

\* the io::Error kinds of a failed Command::spawn
SpawnErrors == {"NotFound", "PermissionDenied"}

\* what happened in the loop, in the order it happened
Event(ev, bytes) == [ev |-> ev, bytes |-> bytes]

\* a test that asks the Rust-side matcher first
Decide_MatcherFirst(f, c, st, plan, bytes) ==
    IF ~MatcherAccepts(plan, bytes)
    THEN [res |-> FALSE, st |-> st, calls |-> <<>>]
    ELSE Bind(should_include(f, c, st, FilterPath(bytes)), LAMBDA r :
             [res |-> r.res, st |-> r.st, calls |-> <<Event("call", bytes)>>])

\* filter.should_include(&path) && plan.rust_matcher...is_none_or(matches):
\* the Filter is asked first, whatever the matcher would say
Decide(f, c, st, plan, bytes) ==
    Bind(should_include(f, c, st, FilterPath(bytes)), LAMBDA r :
        [res   |-> r.res /\ MatcherAccepts(plan, bytes),
         st    |-> r.st,
         calls |-> <<Event("call", bytes)>>])

\* the paths the index reports
RunPaths == {<<D, F>>, <<D, D, F>>, <<D, H, F>>}

\* a record of the child's stdout: a path or nothing, then CRs, then NUL
Records ==
    {body \o crs \o <<NUL>> :
        body \in {AbsBytes(p) : p \in RunPaths} \cup {<<>>},
        crs \in {<<>>, <<CR>>}}

RECURSIVE Flatten(_)
Flatten(seqs) == IF seqs = <<>> THEN <<>> ELSE Head(seqs) \o Flatten(Tail(seqs))

\* what the child writes: records, the last of them with or without its NUL
Streams ==
    LET whole == {Flatten(rs) : rs \in UNION {[1..n -> Records] : n \in 0..MaxRecords}}
    IN  whole \cup {SubSeq(s, 1, Len(s) - 1) : s \in whole \ {<<>>}}

\* plan.rust_matcher
Matchers == {None, Some(<<"f">>), Some(<<"F">>)}

\* args.path
PathArgs == {None, Some(<<".">>)}

\* the ignore files of the runs: at most one line, in /.fdignore or
\* /d/.fdignore
RunRules ==
    {rs \in RuleSeqs(MaxRulesLight) :
        \A i \in 1..Len(rs) : rs[i].slot.kind = "fd" /\ ~rs[i].pat.white}

StartRun(stream, matcher, path_arg, delimiter) ==
    [pc        |-> "setup",
     input     |-> stream,
     stdout    |-> stream,
     plan      |-> [rust_matcher |-> matcher],
     style     |-> OutputStyle(AbsBytes(SearchBase),
                               make_absolute_dir(AbsBytes(SearchBase), path_arg),
                               path_arg),
     delimiter |-> delimiter,
     out       |-> <<>>,
     log       |-> <<>>,
     spawn_err |-> None,
     spawned   |-> FALSE,
     status    |-> None,
     result    |-> None,
     waited    |-> FALSE,
     exit_code |-> None,
     stderr    |-> <<>>]

InitRun ==
    /\ \E rs \in RunRules :
          /\ fs = MakeFs(rs, [d \in IgnDirs |-> "absent"])
          /\ cfg = MakeCfg(rs, FALSE, TRUE)
    /\ NewCaches
    /\ marker_log = <<>>
    /\ filter_seen = 0
    /\ probe = NoProbe
    /\ \E stream \in Streams, matcher \in Matchers, path_arg \in PathArgs,
          delimiter \in Delimiters :
          proc = StartRun(stream, matcher, path_arg, delimiter)

FilterUnchanged ==
    UNCHANGED <<fs, cfg, dir_walkable_cache, repo_root_cache, fdignore_by_dir,
                ignore_by_dir, gitignore_by_dir, info_exclude_by_repo,
                marker_log, filter_seen, probe>>

\* run() up to the call of mdfind::run
Setup ==
    /\ proc.pc = "setup"
    /\ proc' = [proc EXCEPT !.pc = "spawn"]
    /\ FilterUnchanged

\* current_dir() or make_absolute_dir fails
SetupFails ==
    /\ proc.pc = "setup"
    /\ \E chain \in SetupErrors :
          proc' = [proc EXCEPT !.pc = "main", !.result = Some(Err(chain))]
    /\ FilterUnchanged

\* Command::new("mdfind")...spawn() succeeds
Spawn ==
    /\ proc.pc = "spawn"
    /\ proc' = [proc EXCEPT !.pc = "loop", !.spawned = TRUE]
    /\ FilterUnchanged

SpawnFails ==
    /\ proc.pc = "spawn"
    /\ \E kind \in SpawnErrors :
          proc' = [proc EXCEPT !.pc = "main", !.spawn_err = Some(kind),
                               !.result = Some(spawn_error(kind))]
    /\ FilterUnchanged

\* reader.read_until(...)? fails: mdfind::run returns without child.wait()
ReadFails ==
    /\ proc.pc = "loop"
    /\ proc' = [proc EXCEPT !.pc = "main", !.result = Some(Err(<<Io("Other")>>))]
    /\ FilterUnchanged

\* n == 0: break
ReadEof ==
    /\ proc.pc = "loop"
    /\ read_until(proc.stdout).n = 0
    /\ proc' = [proc EXCEPT !.pc = "wait"]
    /\ FilterUnchanged

\* buf.is_empty() after the trailing NUL and CRs are popped: continue
ReadEmpty ==
    /\ proc.pc = "loop"
    /\ \E rd \in {read_until(proc.stdout)} :
          /\ rd.n > 0
          /\ StripTrailing(rd.buf) = <<>>
          /\ proc' = [proc EXCEPT !.stdout = rd.rest,
                                  !.log = Append(@, Event("read", rd.buf))]
    /\ FilterUnchanged

\* one iteration of the loop over a non-empty record: the Filter is asked,
\* then the matcher, and an included path is rendered and written
ReadPath ==
    /\ proc.pc = "loop"
    /\ \E rd \in {read_until(proc.stdout)} :
       \E bytes \in {StripTrailing(rd.buf)} :
          /\ rd.n > 0
          /\ bytes # <<>>
          /\ \E d \in {Decide(fs, cfg, St, proc.plan, bytes)} :
                /\ dir_walkable_cache' = d.st.walk
                /\ repo_root_cache' = d.st.repo
                /\ fdignore_by_dir' = d.st.fd
                /\ ignore_by_dir' = d.st.ig
                /\ gitignore_by_dir' = d.st.git
                /\ info_exclude_by_repo' = d.st.info
                /\ \/ /\ ~d.res
                      /\ proc' = [proc EXCEPT
                            !.stdout = rd.rest,
                            !.log = Append(@, Event("read", rd.buf)) \o d.calls]
                   \/ /\ d.res
                      /\ \E shown \in {render(proc.style, bytes)} :
                            proc' = [proc EXCEPT
                                !.stdout = rd.rest,
                                !.out = write_path(@, shown, proc.delimiter),
                                !.log = Append(@, Event("read", rd.buf)) \o d.calls
                                            \o <<Event("write", shown)>>]
                   \/ /\ d.res
                      /\ \E kind \in WriteErrors :
                            proc' = [proc EXCEPT
                                !.pc = "main",
                                !.stdout = rd.rest,
                                !.result = Some(Err(<<Io(kind)>>)),
                                !.log = Append(@, Event("read", rd.buf)) \o d.calls]
    /\ UNCHANGED <<fs, cfg, marker_log, filter_seen, probe>>

\* child.wait() returns the status of the child
Wait ==
    /\ proc.pc = "wait"
    /\ \E status \in Statuses :
          proc' = [proc EXCEPT !.pc = "main", !.waited = TRUE,
                               !.status = Some(status),
                               !.result = Some(wait_result(status))]
    /\ FilterUnchanged

\* child.wait() fails
WaitFails ==
    /\ proc.pc = "wait"
    /\ proc' = [proc EXCEPT !.pc = "main", !.waited = TRUE,
                   !.result = Some(Err(<<Msg("failed to wait for mdfind"), Io("Other")>>))]
    /\ FilterUnchanged

\* main: the result of run decides the exit code
Main ==
    /\ proc.pc = "main"
    /\ \E m \in {main_exit(proc.result[1])} :
          proc' = [proc EXCEPT !.pc = "exited",
                               !.exit_code = Some(m.exit_code),
                               !.stderr = m.stderr]
    /\ FilterUnchanged

NextRun ==
    \/ Setup
    \/ SetupFails
    \/ Spawn
    \/ SpawnFails
    \/ ReadFails
    \/ ReadEof
    \/ ReadEmpty
    \/ ReadPath
    \/ Wait
    \/ WaitFails
    \/ Main

SpecRun == InitRun /\ [][NextRun]_vars

(***************************************************************************)
(* OutputStyle::render applied to a path the index reports for a search    *)
(* base made from cwd and the path argument.                               *)
(***************************************************************************)
\* the number of components of a path the index reports
MaxDepth == 4

RECURSIVE Resolve(_)
\* the directory a list of components names: ".." leaves the directory
\* entered last (no symlinks in the tree)
Resolve(comps) ==
    IF comps = <<>>
    THEN <<>>
    ELSE IF comps[Len(comps)] = DotDot
         THEN ParentOrSelf(Resolve(SubSeq(comps, 1, Len(comps) - 1)))
         ELSE Append(Resolve(SubSeq(comps, 1, Len(comps) - 1)), comps[Len(comps)])

\* the directory mdfind searches for -onlyin base
OnlyIn(base) == Resolve(FilterPath(base))

\* std::env::current_dir()
Cwds == {AbsBytes(<<D>>), AbsBytes(<<D, D>>)}

\* args.path: none, ".", "d", "./d", "d/", "..", "../d", "/d/d"
RenderArgs ==
    {None, Some(<<".">>), Some(<<"d">>), Some(<<".", Slash, "d">>),
     Some(<<"d", Slash>>), Some(<<".", ".">>), Some(<<".", ".", Slash, "d">>),
     Some(AbsBytes(<<D, D>>))}

\* the absolute paths of the index: no "." or ".." segment
IndexPaths ==
    {AbsBytes(p) : p \in UNION {[1..n -> {D, F, H}] : n \in 1..MaxDepth}}

InitRender ==
    /\ fs = MakeFs(<<>>, [d \in IgnDirs |-> "absent"])
    /\ cfg = MakeCfg(<<>>, FALSE, TRUE)
    /\ NewCaches
    /\ marker_log = <<>>
    /\ filter_seen = 0
    /\ proc = NoRun
    /\ \E cwd \in Cwds, path_arg \in RenderArgs, abs_path \in IndexPaths :
          /\ StartsWith(FilterPath(abs_path), OnlyIn(make_absolute_dir(cwd, path_arg)))
          /\ probe = [cwd |-> cwd, path_arg |-> path_arg, abs_path |-> abs_path,
                      shown |-> None]

\* out_style.render(&path) for the style run() constructs
Render ==
    /\ probe.shown = None
    /\ probe' = [probe EXCEPT !.shown =
                    Some(render(OutputStyle(probe.cwd,
                                            make_absolute_dir(probe.cwd, probe.path_arg),
                                            probe.path_arg),
                                probe.abs_path))]
    /\ UNCHANGED <<fs, cfg, dir_walkable_cache, repo_root_cache, fdignore_by_dir,
                   ignore_by_dir, gitignore_by_dir, info_exclude_by_repo,
                   marker_log, filter_seen, proc>>

NextRender == Render

SpecRender == InitRender /\ [][NextRender]_vars

(***************************************************************************)
(* The query plan (src/src/query.rs) and the index it is handed to.  A     *)
(* string is a sequence of characters; a fixed token of the command line   *)
(* or of the query language ("-name", "kMDItemFSName == ") is written as   *)
(* one element.                                                            *)
(***************************************************************************)
\* the number of characters of a pattern and of a file name
MaxPatLen == 2

MaxNameLen == 2

Quote == "\""

Backslash == "\\"

\* char::is_uppercase on the characters of the model
is_uppercase(ch) == ch = "F"

\* char::to_lowercase on the characters of the model
to_lowercase(ch) == IF ch = "F" THEN "f" ELSE ch

has_uppercase(s) == \E i \in 1..Len(s) : is_uppercase(s[i])

is_glob(pattern) == \E i \in 1..Len(pattern) : pattern[i] \in {"*", "?"}

RECURSIVE Replace(_, _, _)
\* str::replace(ch, with)
Replace(s, ch, with) ==
    IF s = <<>>
    THEN <<>>
    ELSE (IF Head(s) = ch THEN with ELSE <<Head(s)>>) \o Replace(Tail(s), ch, with)

escape_query_string(s) ==
    Replace(Replace(s, Backslash, <<Backslash, Backslash>>), Quote, <<Backslash, Quote>>)

\* build_query(pattern): kMDItemFSName == "<escaped>" with or without c
build_query(pattern) ==
    LET pat == IF pattern = None
               THEN <<"*">>
               ELSE IF is_glob(pattern[1])
                    THEN pattern[1]
                    ELSE <<"*">> \o pattern[1] \o <<"*">>
        case_insensitive == pattern # None /\ ~has_uppercase(pattern[1])
    IN  <<"kMDItemFSName == ", Quote>> \o escape_query_string(pat)
            \o (IF case_insensitive THEN <<Quote, "c">> ELSE <<Quote>>)

\* a test that knows the two spellings of /tmp only
should_avoid_name_fast_path_TmpOnly(base) ==
    \E prefix \in {<<RootDir, <<"tmp">>>>,
                   <<RootDir, <<"private">>, <<"tmp">>>>} :
        StartsWith(Components(ParseRaw(base)), prefix)

\* base.starts_with("/var/folders") || ... || base.starts_with("/private/tmp")
should_avoid_name_fast_path(base) ==
    \E prefix \in {<<RootDir, <<"var">>, <<"folders">>>>,
                   <<RootDir, <<"private">>, <<"var">>, <<"folders">>>>,
                   <<RootDir, <<"tmp">>>>,
                   <<RootDir, <<"private">>, <<"tmp">>>>} :
        StartsWith(Components(ParseRaw(base)), prefix)

\* a plan that never adds the Rust-side matcher
build_mdfind_plan_NoMatcher(base, pattern) ==
    IF pattern = None \/ is_glob(pattern[1]) \/ should_avoid_name_fast_path(base)
    THEN [args |-> <<<<"-0">>, <<"-onlyin">>, base, build_query(pattern)>>,
          rust_matcher |-> None]
    ELSE [args |-> <<<<"-0">>, <<"-onlyin">>, base, <<"-name">>, pattern[1]>>,
          rust_matcher |-> None]

\* build_mdfind_plan(base, pattern)
build_mdfind_plan(base, pattern) ==
    IF pattern = None
    THEN [args |-> <<<<"-0">>, <<"-onlyin">>, base, build_query(None)>>,
          rust_matcher |-> None]
    ELSE IF is_glob(pattern[1])
         THEN [args |-> <<<<"-0">>, <<"-onlyin">>, base, build_query(pattern)>>,
               rust_matcher |-> None]
         ELSE IF should_avoid_name_fast_path(base)
              THEN [args |-> <<<<"-0">>, <<"-onlyin">>, base, build_query(pattern)>>,
                    rust_matcher |-> None]
              ELSE [args |-> <<<<"-0">>, <<"-onlyin">>, base, <<"-name">>, pattern[1]>>,
                    rust_matcher |->
                        IF has_uppercase(pattern[1]) THEN Some(pattern[1]) ELSE None]

\* a string with every character in lower case
Lower(s) == [i \in 1..Len(s) |-> to_lowercase(s[i])]

RECURSIVE WildMatch(_, _)
\* a whole-string wildcard match: * is any string, ? any one character
WildMatch(pat, name) ==
    IF pat = <<>>
    THEN name = <<>>
    ELSE IF Head(pat) = "*"
         THEN \/ WildMatch(Tail(pat), name)
              \/ name # <<>> /\ WildMatch(pat, Tail(name))
         ELSE /\ name # <<>>
              /\ Head(pat) = "?" \/ Head(pat) = Head(name)
              /\ WildMatch(Tail(pat), Tail(name))

RECURSIVE Unescape(_)
\* the value of a quoted string of the query language
Unescape(s) ==
    IF s = <<>>
    THEN <<>>
    ELSE IF Head(s) = Backslash /\ Len(s) >= 2
         THEN <<s[2]>> \o Unescape(SubSeq(s, 3, Len(s)))
         ELSE <<Head(s)>> \o Unescape(Tail(s))

\* mdfind on a predicate  kMDItemFSName == "value"[c]  for a file name
QueryMatches(query, name) ==
    LET ci    == query[Len(query)] = "c"
        close == IF ci THEN Len(query) - 1 ELSE Len(query)
        value == Unescape(SubSeq(query, 3, close - 1))
    IN  IF ci THEN WildMatch(Lower(value), Lower(name)) ELSE WildMatch(value, name)

\* mdfind -name <text>: the name contains the text, whatever the case
NameMatches(text, name) == Contains(Lower(name), Lower(text))

\* does mdfind report a file of this name for the arguments of the plan
IndexMatches(args, name) ==
    IF args[4] = <<"-name">>
    THEN NameMatches(args[5], name)
    ELSE QueryMatches(args[4], name)

\* std::env / Args: the bases and patterns of the model
QueryBases ==
    {AbsBytes(<<D>>), AbsBytes(<<<<"tmp">>, D>>),
     AbsBytes(<<<<"private">>, <<"var">>, <<"folders">>>>),
     AbsBytes(<<<<"tmp">>>>), AbsBytes(<<<<"private">>, <<"tmp">>>>),
     AbsBytes(<<<<"var">>, <<"folders">>, D>>),
     AbsBytes(<<<<"var">>>>), AbsBytes(<<D, <<"tmp">>>>)}

PatternChars == {"f", "F", "*", "?", Quote}

NameChars == {"f", "F", Quote}

QueryPatterns ==
    {None} \cup {Some(p) : p \in UNION {[1..n -> PatternChars] : n \in 1..MaxPatLen}}

FileNames == UNION {[1..n -> NameChars] : n \in 1..MaxNameLen}

InitQuery ==
    /\ fs = MakeFs(<<>>, [d \in IgnDirs |-> "absent"])
    /\ cfg = MakeCfg(<<>>, FALSE, TRUE)
    /\ NewCaches
    /\ marker_log = <<>>
    /\ filter_seen = 0
    /\ proc = NoRun
    /\ \E base \in QueryBases, pattern \in QueryPatterns, name \in FileNames :
          probe = [base |-> base, pattern |-> pattern, name |-> name,
                   plan |-> None, emitted |-> None]

ProbeOnly ==
    UNCHANGED <<fs, cfg, dir_walkable_cache, repo_root_cache, fdignore_by_dir,
                ignore_by_dir, gitignore_by_dir, info_exclude_by_repo,
                marker_log, filter_seen, proc>>

\* let query_plan = query::build_mdfind_plan(&base, args.pattern.as_deref())
BuildPlan ==
    /\ probe.plan = None
    /\ probe' = [probe EXCEPT !.plan = Some(build_mdfind_plan(probe.base, probe.pattern))]
    /\ ProbeOnly

\* the index reports base/name or not, and the Rust-side matcher sees it
MatchName ==
    /\ probe.plan # None
    /\ probe.emitted = None
    /\ probe' = [probe EXCEPT !.emitted =
                    Some(/\ IndexMatches(probe.plan[1].args, probe.name)
                         /\ MatcherAccepts(probe.plan[1], join(probe.base, probe.name)))]
    /\ ProbeOnly

NextQuery == BuildPlan \/ MatchName

SpecQuery == InitQuery /\ [][NextQuery]_vars

(***************************************************************************)
(* Candidates whose stat fails, and directory-only patterns.               *)
(***************************************************************************)
\* the name of an entry whose symlink_metadata fails or that is a symlink
NoEntry == <<"x">>

\* the lines  name, !name, name/, !name/  for the names d, f and x
StatPatterns == [name : {D, F, NoEntry}, white : BOOLEAN, dirOnly : BOOLEAN]

StatRuleSeqs ==
    UNION {[1..n -> [slot : Slots, pat : StatPatterns]] : n \in 0..MaxRulesLight}

\* the paths handed to should_include: the candidates and two paths whose
\* stat fails, one below the base and one outside it
StatPaths == Candidates \cup {<<D, NoEntry>>, <<NoEntry>>}

InitStat ==
    /\ \E rs \in StatRuleSeqs, h \in HeadChoices({"head"}),
          hid \in BOOLEAN, ign \in BOOLEAN :
          /\ fs = MakeFs(rs, h)
          /\ cfg = MakeCfg(rs, hid, ign)
    /\ NewCaches
    /\ marker_log = <<>>
    /\ filter_seen = 0
    /\ probe = NoProbe
    /\ proc = NoRun

NextStat == \E path \in StatPaths : ShouldInclude(path)

SpecStat == InitStat /\ [][NextStat]_vars

(***************************************************************************)
(* Ignore files that are directories or cannot be read.                    *)
(***************************************************************************)
\* the ignore file the first rule of a sequence is written to
FirstFile(rs) ==
    {s \in [kind : Kinds, dir : IgnDirs] : rs # <<>> /\ rs[1].slot = s}

\* a tree in which the entry of slot s is in state e
MakeFsEntry(rs, h, s, e) ==
    [MakeFs(rs, h) EXCEPT !.entry[s.kind][s.dir] = e]

InitFail ==
    /\ \E rs \in RuleSeqs(MaxRules), h \in HeadChoices({"head"}) :
          /\ \E s \in FirstFile(rs), e \in EntryStates \ {"file"} :
                fs = MakeFsEntry(rs, h, s, e)
          /\ cfg = MakeCfg(rs, FALSE, TRUE)
    /\ NewCaches
    /\ marker_log = <<>>
    /\ filter_seen = 0
    /\ probe = NoProbe
    /\ proc = NoRun

NextFail == \E path \in Candidates : ShouldInclude(path)

SpecFail == InitFail /\ [][NextFail]_vars

(***************************************************************************)
(* A search base that is a hidden directory: sf PATTERN .h run in /d.      *)
(***************************************************************************)
\* the search bases of the model: /d and the hidden directory /d/.h
SearchBases == {SearchBase, <<D, H>>}

InitBase ==
    /\ \E rs \in RuleSeqs(MaxRulesLight), h \in HeadChoices({"head"}),
          hid \in BOOLEAN, ign \in BOOLEAN, base \in SearchBases :
          /\ fs = MakeFs(rs, h)
          /\ cfg = [MakeCfg(rs, hid, ign) EXCEPT !.search_base = base]
    /\ NewCaches
    /\ marker_log = <<>>
    /\ filter_seen = 0
    /\ probe = NoProbe
    /\ proc = NoRun

NextBase == \E path \in Candidates : ShouldInclude(path)

SpecBase == InitBase /\ [][NextBase]_vars

(***************************************************************************)
(* Shorthands used by the properties.                                      *)
(***************************************************************************)
\* the result of should_include(path) called in the current state
Res(path) == should_include(fs, cfg, St, path).res

\* the result of should_include(path) on a Filter whose caches are empty
Fresh(f, c, path) == should_include(f, c, EmptySt, path).res

\* d is a directory with B <= d < p
AncestorUnderBase(d, p) ==
    /\ d \in Dirs
    /\ StartsWith(d, SearchBase)
    /\ StartsWith(p, d)
    /\ d # p

\* the composition applied to an entry alone, no pruning, no caches
EntryAlone(f, c, path) ==
    is_entry_included(f, c, EmptySt, path, IsDir(path), ParentOrSelf(path)).res

(***************************************************************************)
(* C1  Pruning soundness: if should_include(d) is false for a directory d  *)
(* with B <= d < p, then should_include(p) is false, whether p is asked    *)
(* before or after d, in every state any earlier calls have led to.        *)
(***************************************************************************)
C1_PruningSoundness ==
    \A p \in Candidates : \A d \in Dirs :
        AncestorUnderBase(d, p) =>
            LET rd == should_include(fs, cfg, St, d)
            IN  ~rd.res =>
                    /\ ~Res(p)
                    /\ ~should_include(fs, cfg, rd.st, p).res

\* /d/d was found not walkable by an earlier call, the rules that apply to
\* /d/d/f alone include it, and /d/d/f is excluded
C1_Witness ==
    /\ cfg.ignore_enabled
    /\ dir_walkable_cache[<<D, D>>] = Some(FALSE)
    /\ \E k \in {"fd", "ig", "git"} : \E dir \in IgnDirs :
          /\ FileAt(fs, k, dir) # None
          /\ Matched(BuildMatcher(dir, FileAt(fs, k, dir)[1]), <<D, D, F>>, FALSE)
                = "Whitelist"
    /\ EntryAlone(fs, cfg, <<D, D, F>>)
    /\ ~Res(<<D, D, F>>)

(***************************************************************************)
(* C3  Cache transparency: in every state, the decision of the Filter that *)
(* kept its caches equals the decision of a Filter with empty caches.      *)
(***************************************************************************)
C3_CacheTransparency ==
    \A p \in Candidates : Res(p) = Fresh(fs, cfg, p)

\* all kinds of cache hold entries, and a cached negative decides a call
C3_Witness ==
    /\ \E d \in Dirs : dir_walkable_cache[d] = Some(FALSE)
    /\ \E d \in Dirs : repo_root_cache[d] # None /\ repo_root_cache[d][1] # None
    /\ \E d \in Dirs : gitignore_by_dir[d] # None /\ gitignore_by_dir[d][1] # None
    /\ \E d \in Dirs : info_exclude_by_repo[d] # None
    /\ \E p \in Candidates : ~Res(p) /\ EntryAlone(fs, cfg, p)

(***************************************************************************)
(* C2  Walker equivalence: for every candidate below the search base,      *)
(* should_include returns the decision of the reference recursive walker,  *)
(* which enters the search base unconditionally, visits an entry iff it    *)
(* entered the entry's parent and the entry passes the hidden rule and the *)
(* ignore composition, and enters only directories it visited.             *)
(***************************************************************************)
\* the walker's test of one entry of a directory it entered
WalkerAccepts(f, c, e) ==
    /\ c.include_hidden \/ ~is_hidden_component(e[Len(e)])
    /\ c.ignore_enabled => EntryAlone(f, c, e)

RECURSIVE WalkerVisits(_, _, _)
WalkerVisits(f, c, p) ==
    IF p = c.search_base
    THEN TRUE
    ELSE WalkerVisits(f, c, ParentOrSelf(p)) /\ WalkerAccepts(f, c, p)

BelowBase(p) == StartsWith(p, SearchBase) /\ p # SearchBase

C2_WalkerEquivalence ==
    \A p \in Candidates :
        BelowBase(p) => (Res(p) = WalkerVisits(fs, cfg, p))

\* the part of C2 the code does satisfy: the walker and the Filter agree
\* whenever the composition does not exclude the search base itself
C2_AgreesUnlessBaseIgnored ==
    (cfg.ignore_enabled => EntryAlone(fs, cfg, SearchBase)) =>
        \A p \in Candidates :
            BelowBase(p) => (Res(p) = WalkerVisits(fs, cfg, p))

(***************************************************************************)
(* The six layers of the composition, read off the filesystem without      *)
(* caches or loops: the reference the precedence properties compare the    *)
(* code with.                                                              *)
(***************************************************************************)
\* dir and its ancestors up to the filesystem root
Prefixes(dir) == {SubSeq(dir, 1, n) : n \in 0..Len(dir)}

\* the member of a non-empty set of prefixes of one path that is deepest
Deepest(dirs) == CHOOSE a \in dirs : \A b \in dirs : Len(b) <= Len(a)

\* <dir>/.git/HEAD is a regular file
HasHead(f, dir) == dir \in IgnDirs /\ f.head[dir] = "head"

\* the nearest enclosing repository root of dir, if any
NearestRepoRoot(f, dir) ==
    LET roots == {a \in Prefixes(dir) : HasHead(f, a)}
    IN  IF roots = {} THEN None ELSE Some(Deepest(roots))

\* what the ignore file of `kind` in directory a says about the path
FileDecision(f, kind, a, path, is_dir) ==
    IF FileAt(f, kind, a) = None
    THEN None
    ELSE match_to_decision(
             Matched(BuildMatcher(a, FileAt(f, kind, a)[1]), path, is_dir))

\* the decision of the deepest directory of dirs whose file decides
NearestDecision(f, kind, dirs, path, is_dir) ==
    LET deciding == {a \in dirs : FileDecision(f, kind, a, path, is_dir) # None}
    IN  IF deciding = {}
        THEN None
        ELSE FileDecision(f, kind, Deepest(deciding), path, is_dir)

\* layer n of spec 4.4.2 on (path, is_dir): None when it abstains
Layer(f, c, n, path, is_dir) ==
    LET start == ParentOrSelf(path)
        root  == NearestRepoRoot(f, start)
    IN  CASE n = 1 -> NearestDecision(f, "fd", Prefixes(start), path, is_dir)
          [] n = 2 -> NearestDecision(f, "ig", Prefixes(start), path, is_dir)
          [] n = 3 ->
                IF root = None
                THEN None
                ELSE NearestDecision(f, "git",
                         {a \in Prefixes(start) : Len(a) >= Len(root[1])},
                         path, is_dir)
          [] n = 4 ->
                IF root = None
                THEN None
                ELSE FileDecision(f, "info", root[1], path, is_dir)
          [] n = 5 ->
                IF root = None
                THEN None
                ELSE match_to_decision(Matched(c.global_gitignore, path, is_dir))
          [] n = 6 ->
                IF c.global_fd_ignore = None
                THEN None
                ELSE match_to_decision(
                         Matched(c.global_fd_ignore[1], path, is_dir))

\* the layers that decide
Deciding(f, c, path, is_dir) ==
    {n \in 1..6 : Layer(f, c, n, path, is_dir) # None}

\* the first deciding layer's verdict, include when all abstain
FirstLayerIncludes(f, c, path, is_dir) ==
    LET ds == Deciding(f, c, path, is_dir)
    IN  IF ds = {}
        THEN TRUE
        ELSE LET n == CHOOSE i \in ds : \A j \in ds : i <= j
             IN  Layer(f, c, n, path, is_dir)[1] = "Whitelist"

\* the composition the code computes for a path in the current state
Composed(c, path) ==
    is_entry_included(fs, c, St, path, IsDir(path), ParentOrSelf(path)).res

\* the entries the composition is applied to
Entries == (Dirs \cup Files) \ {ROOT}

(***************************************************************************)
(* C4  Precedence total order: the composition returns the decision of the *)
(* first layer, in the order .fdignore, .ignore, .gitignore, info/exclude, *)
(* global VCS ignore, global tool ignore, that does not abstain, and       *)
(* include when all abstain; so no lower layer changes a higher decision.  *)
(***************************************************************************)
C4_PrecedenceOrder ==
    \A p \in Entries :
        Composed(cfg, p) = FirstLayerIncludes(fs, cfg, p, IsDir(p))

\* two layers decide a path differently, the composition has been evaluated
\* for it (its parent's ignore files are cached), and the higher one wins
C4_Witness ==
    \E p \in Entries : \E hi \in 1..6 : \E lo \in 1..6 :
        /\ hi < lo
        /\ Deciding(fs, cfg, p, IsDir(p)) = {hi, lo}
        /\ Layer(fs, cfg, hi, p, IsDir(p)) = Some("Whitelist")
        /\ Layer(fs, cfg, lo, p, IsDir(p)) = Some("Ignore")
        /\ fdignore_by_dir[ParentOrSelf(p)] # None
        /\ Composed(cfg, p)

(***************************************************************************)
(* C5  Repository scoping of .gitignore: when no directory from the        *)
(* candidate's parent upward has .git/HEAD as a regular file, the decision *)
(* is the one taken with every .gitignore removed, and the call does not   *)
(* read any .gitignore; a .git directory without HEAD changes nothing.     *)
(***************************************************************************)
NoGitignore(f) == [f EXCEPT !.git = [d \in IgnDirs |-> None]]

OutsideRepo(f, p) == NearestRepoRoot(f, ParentOrSelf(p)) = None

C5_GitignoreNeedsRepo ==
    \A p \in Candidates :
        OutsideRepo(fs, p) =>
            /\ Res(p) = Fresh(NoGitignore(fs), cfg, p)
            /\ should_include(fs, cfg, St, p).st.git = gitignore_by_dir

\* the base has a .git directory without HEAD and a .gitignore that ignores
\* f; /d/f has been decided (its parent is cached walkable) and is included
C5_Witness ==
    /\ cfg.ignore_enabled
    /\ fs.head[SearchBase] = "dir"
    /\ FileDecision(fs, "git", SearchBase, <<D, F>>, FALSE) = Some("Ignore")
    /\ OutsideRepo(fs, <<D, F>>)
    /\ dir_walkable_cache[SearchBase] = Some(TRUE)
    /\ repo_root_cache[SearchBase] = Some(None)
    /\ Res(<<D, F>>)

(***************************************************************************)
(* C6  info/exclude and the global VCS ignore need a repository: when the  *)
(* candidate's parent lies in no repository, the decision is the one taken *)
(* with every info/exclude removed and an empty global VCS matcher, and    *)
(* the call builds no info/exclude matcher.                                *)
(***************************************************************************)
NoInfoExclude(f) == [f EXCEPT !.info = [d \in IgnDirs |-> None]]

NoGlobalGit(c) == [c EXCEPT !.global_gitignore = EmptyMatcher]

C6_RepoLayersNeedRepo ==
    \A p \in Candidates :
        OutsideRepo(fs, p) =>
            /\ Res(p) = Fresh(NoInfoExclude(fs), NoGlobalGit(cfg), p)
            /\ should_include(fs, cfg, St, p).st.info = info_exclude_by_repo

\* the global VCS matcher ignores /d/f, nothing else decides it, no
\* repository encloses it, it has been decided and is included
C6_Witness ==
    /\ cfg.ignore_enabled
    /\ match_to_decision(Matched(cfg.global_gitignore, <<D, F>>, FALSE))
          = Some("Ignore")
    /\ OutsideRepo(fs, <<D, F>>)
    /\ Deciding(fs, cfg, <<D, F>>, FALSE) = {}
    /\ dir_walkable_cache[SearchBase] = Some(TRUE)
    /\ repo_root_cache[SearchBase] = Some(None)
    /\ Res(<<D, F>>)

(***************************************************************************)
(* C8  The global tool-specific matcher is the lowest layer: with ignores  *)
(* enabled it decides exactly when layers 1-5 all abstain, inside or       *)
(* outside a repository, and is irrelevant when one of them decides; with  *)
(* ignores disabled it never changes a decision.                           *)
(***************************************************************************)
NoGlobalFd(c) == [c EXCEPT !.global_fd_ignore = None]

C8_GlobalFdIgnoreLowest ==
    \A p \in Entries :
        /\ IF Deciding(fs, cfg, p, IsDir(p)) \subseteq {6}
           THEN Composed(cfg, p) =
                    (Layer(fs, cfg, 6, p, IsDir(p)) # Some("Ignore"))
           ELSE Composed(cfg, p) = Composed(NoGlobalFd(cfg), p)
        /\ ~cfg.ignore_enabled =>
              Res(p) = should_include(fs, NoGlobalFd(cfg), St, p).res

\* the global tool matcher alone ignores /d/f, which was decided and is
\* excluded by it (its parent is walkable)
C8_Witness ==
    /\ cfg.ignore_enabled
    /\ Deciding(fs, cfg, <<D, F>>, FALSE) = {6}
    /\ Layer(fs, cfg, 6, <<D, F>>, FALSE) = Some("Ignore")
    /\ dir_walkable_cache[SearchBase] = Some(TRUE)
    /\ fdignore_by_dir[SearchBase] # None
    /\ ~Res(<<D, F>>)

(***************************************************************************)
(* C9  Idempotence: on an unchanging filesystem no call to should_include  *)
(* changes the answer the same Filter gives for any path, so two calls on  *)
(* the same path, with any calls in between, return the same boolean.      *)
(***************************************************************************)
C9_Idempotence ==
    \A q \in Candidates : \A p \in Candidates :
        should_include(fs, cfg, should_include(fs, cfg, St, q).st, p).res = Res(p)

\* /d/f has been refused because of a .gitignore rule, with the repository
\* root and the .gitignore files cached, and is refused again
C9_Witness ==
    /\ Deciding(fs, cfg, <<D, F>>, FALSE) = {3}
    /\ dir_walkable_cache[SearchBase] = Some(TRUE)
    /\ repo_root_cache[SearchBase] # None
    /\ repo_root_cache[SearchBase][1] # None
    /\ gitignore_by_dir[SearchBase] # None
    /\ ~Res(<<D, F>>)

(***************************************************************************)
(* C7  Repository gating follows the marker.  With root the only           *)
(* repository root above the candidate, and the candidate and every        *)
(* directory from the base down to it decided by no layer but .gitignore,  *)
(* which ignores one of them: after root/.git/HEAD is removed the          *)
(* candidate is included, after it is restored the candidate is excluded.  *)
(***************************************************************************)
\* the base, the directories between it and p, and p
Chain(p) == {e \in Entries : StartsWith(e, SearchBase) /\ StartsWith(p, e)}

WithHead(f, root) == [f EXCEPT !.head[root] = "head"]

WithoutHead(f, root) == [f EXCEPT !.head[root] = "dir"]

\* with the marker of root present, p is excluded by .gitignore rules alone;
\* with it absent p lies in no repository
ExcludedOnlyByGitignore(p, root) ==
    /\ cfg.ignore_enabled
    /\ StartsWith(p, SearchBase)
    /\ cfg.include_hidden \/ ~is_hidden_under_base(p, SearchBase)
    /\ NearestRepoRoot(WithHead(fs, root), ParentOrSelf(p)) # None
    /\ NearestRepoRoot(WithoutHead(fs, root), ParentOrSelf(p)) = None
    /\ \A e \in Chain(p) :
          Deciding(WithHead(fs, root), cfg, e, IsDir(e)) \subseteq {3}
    /\ \E e \in Chain(p) :
          Layer(WithHead(fs, root), cfg, 3, e, IsDir(e)) = Some("Ignore")

\* the last change to the filesystem
LastChange == marker_log[Len(marker_log)]

FollowsMarker(p, root) ==
    /\ LastChange = MarkerEvent("removed", root) => Res(p)
    /\ LastChange = MarkerEvent("restored", root) => ~Res(p)

\* C7 as stated: any call made after the change, on whatever Filter
C7_FlipsOnAnyCall ==
    \A p \in Candidates : \A root \in IgnDirs :
        (marker_log # <<>> /\ ExcludedOnlyByGitignore(p, root))
            => FollowsMarker(p, root)

\* C7 as amended: the calls of a Filter constructed after the change
C7_FlipsOnNewFilter ==
    \A p \in Candidates : \A root \in IgnDirs :
        (/\ marker_log # <<>>
         /\ filter_seen = Len(marker_log)
         /\ ExcludedOnlyByGitignore(p, root))
            => FollowsMarker(p, root)

\* /d/.git/HEAD was removed, a Filter constructed since has decided /d/f,
\* which /d/.gitignore would ignore, and includes it
C7_Witness ==
    /\ marker_log # <<>>
    /\ LastChange = MarkerEvent("removed", SearchBase)
    /\ filter_seen = Len(marker_log)
    /\ ExcludedOnlyByGitignore(<<D, F>>, SearchBase)
    /\ dir_walkable_cache[SearchBase] = Some(TRUE)
    /\ repo_root_cache[SearchBase] = Some(None)
    /\ Res(<<D, F>>)

(***************************************************************************)
(* C10  Hidden locality: for a path under the base, is_hidden_under_base   *)
(* is true iff some component of the path strictly below the base starts   *)
(* with "." and is neither "." nor ".."; the components of the base itself *)
(* play no part.                                                           *)
(***************************************************************************)
StartsWithDot(comp) == comp # <<>> /\ comp[1] = "."

HiddenBelow(pc, bc) ==
    \E i \in (Len(bc) + 1)..Len(pc) :
        StartsWithDot(pc[i]) /\ pc[i] # Dot /\ pc[i] # DotDot

C10_HiddenLocality ==
    LET pc == Components(probe.path)
        bc == Components(probe.base)
    IN  (probe.hidden # None /\ StartsWith(pc, bc))
            => probe.hidden[1] = HiddenBelow(pc, bc)

\* a base with a hidden component, a path below it whose further components
\* include "..", found not hidden
C10_Witness ==
    LET pc == Components(probe.path)
        bc == Components(probe.base)
    IN  /\ probe.hidden = Some(FALSE)
        /\ StartsWith(pc, bc)
        /\ \E i \in 1..Len(bc) : bc[i] = H
        /\ \E i \in (Len(bc) + 1)..Len(pc) : pc[i] = DotDot

(***************************************************************************)
(* C11  -I does not imply -H: with ignore_enabled false and include_hidden *)
(* false, a candidate under the base is included iff no component of it    *)
(* below the base is hidden, whatever the ignore files and .git entries.   *)
(***************************************************************************)
C11_NoIgnoreKeepsHidden ==
    (~cfg.ignore_enabled /\ ~cfg.include_hidden) =>
        \A p \in Candidates :
            StartsWith(p, SearchBase) => Res(p) = ~HiddenBelow(p, SearchBase)

\* under -I alone: the ignore files would exclude /d/f, which has been
\* decided and is included, while the hidden /d/.h/f is refused
C11_Witness ==
    /\ ~cfg.ignore_enabled
    /\ ~cfg.include_hidden
    /\ ~FirstLayerIncludes(fs, cfg, <<D, F>>, FALSE)
    /\ dir_walkable_cache[SearchBase] = Some(TRUE)
    /\ Res(<<D, F>>)
    /\ ~Res(<<D, H, F>>)

(***************************************************************************)
(* C12  The search base as a candidate: is_walkable_to answers true for it *)
(* whatever the ignore files in the base or above it say, and the hidden   *)
(* predicate, seeing no component, does not fire.                          *)
(***************************************************************************)
C12_BaseTriviallyWalkable ==
    /\ ~is_hidden_under_base(SearchBase, SearchBase)
    /\ is_walkable_to(fs, cfg, St, SearchBase, TRUE).res

(***************************************************************************)
(* C13  A candidate whose container is not under the base: the             *)
(* walkability step answers true whatever the WalkableCache holds and      *)
(* leaves every cache as it was; the hidden predicate looks at every       *)
(* component of the path; the ignore layers decide as for any other path.  *)
(***************************************************************************)
Container(p) == IF IsDir(p) THEN p ELSE ParentOrSelf(p)

OutsideBase(p) == ~StartsWith(Container(p), SearchBase)

AllRefused == [k \in Dirs |-> Some(FALSE)]

HiddenAnywhere(p) ==
    \E i \in 1..Len(p) : StartsWithDot(p[i]) /\ p[i] # Dot /\ p[i] # DotDot

C13_OutsideBase ==
    \A p \in Candidates :
        OutsideBase(p) =>
            /\ is_walkable_to(fs, cfg, St, p, IsDir(p)) = [res |-> TRUE, st |-> St]
            /\ is_walkable_to(fs, cfg, [St EXCEPT !.walk = AllRefused], p, IsDir(p)).res
            /\ should_include(fs, cfg, St, p).st.walk = dir_walkable_cache
            /\ Res(p) = (/\ cfg.include_hidden \/ ~HiddenAnywhere(p)
                         /\ cfg.ignore_enabled =>
                                FirstLayerIncludes(fs, cfg, p, IsDir(p)))

\* only calls on /f and /.h have been made (the WalkableCache is empty, the
\* ignore files of / are cached); an ignore file excludes /f, and under -H
\* /.h is included
C13_Witness ==
    /\ cfg.include_hidden
    /\ cfg.ignore_enabled
    /\ dir_walkable_cache = EmptyMap
    /\ fdignore_by_dir[ROOT] # None
    /\ ~Res(<<F>>)
    /\ Res(<<H>>)

(***************************************************************************)
(* C14  WalkableCache invariant: a directory cached walkable has every     *)
(* ancestor up to and including the search base cached walkable.           *)
(***************************************************************************)
C14_PositiveAncestors ==
    \A d \in Dirs :
        dir_walkable_cache[d] = Some(TRUE) =>
            \A a \in Dirs :
                (StartsWith(a, SearchBase) /\ StartsWith(d, a)) =>
                    dir_walkable_cache[a] = Some(TRUE)

\* /d/d is cached walkable, and so is the base above it
C14_Witness ==
    /\ dir_walkable_cache[<<D, D>>] = Some(TRUE)
    /\ dir_walkable_cache[SearchBase] = Some(TRUE)

(***************************************************************************)
(* C15  The caches are append-only for the lifetime of a Filter: a key     *)
(* once written to the walkable, repo-root, .fdignore, .ignore, .gitignore *)
(* or info-exclude cache keeps its value through every later call, also    *)
(* when .git/HEAD is removed or written in between.                        *)
(***************************************************************************)
\* every key the cache holds is held, with the same value, after the step
Kept(cache, cacheAfter) ==
    \A k \in Dirs : cache[k] # None => cacheAfter[k] = cache[k]

C15_AppendOnly ==
    [][filter_seen' = filter_seen =>
          /\ Kept(dir_walkable_cache, dir_walkable_cache')
          /\ Kept(repo_root_cache, repo_root_cache')
          /\ Kept(fdignore_by_dir, fdignore_by_dir')
          /\ Kept(ignore_by_dir, ignore_by_dir')
          /\ Kept(gitignore_by_dir, gitignore_by_dir')
          /\ Kept(info_exclude_by_repo, info_exclude_by_repo')]_vars

\* the Filter found the repository root /d, /d/.git/HEAD was then removed,
\* and the same Filter, asked again, still answers from the recorded root
C15_Witness ==
    /\ marker_log # <<>>
    /\ LastChange = MarkerEvent("removed", SearchBase)
    /\ filter_seen = 0
    /\ repo_root_cache[SearchBase] = Some(Some(SearchBase))
    /\ repo_root_cache[<<D, D>>] = Some(Some(SearchBase))
    /\ ExcludedOnlyByGitignore(<<D, F>>, SearchBase)
    /\ ~Res(<<D, F>>)

(***************************************************************************)
(* The run loop and the exit codes.                                        *)
(***************************************************************************)
\* the events of one kind, in the order they happened
EventsOf(ev) == SelectSeq(proc.log, LAMBDA e : e.ev = ev)

\* the bytes the loop has read from the child so far
Consumed == SubSeq(proc.input, 1, Len(proc.input) - Len(proc.stdout))

\* the suffix write_path puts after a path
Suffix == IF proc.delimiter = "Newline" THEN <<LF>> ELSE <<NUL>>

\* C16: what mdfind::run has written is, in order, the rendering of records it
\* read: every write follows at once the Filter call and the read of its own
\* record, the reads are the child's output in the order the child wrote it,
\* and the output holds the written paths in the order of their writes.
C16_OrderPreserved ==
    /\ \A i \in 1..Len(proc.log) :
          proc.log[i].ev = "write" =>
              /\ i >= 3
              /\ proc.log[i - 1].ev = "call"
              /\ proc.log[i - 2].ev = "read"
              /\ proc.log[i - 1].bytes = StripTrailing(proc.log[i - 2].bytes)
              /\ proc.log[i].bytes = render(proc.style, proc.log[i - 1].bytes)
    /\ Flatten([i \in 1..Len(EventsOf("read")) |-> EventsOf("read")[i].bytes]) = Consumed
    /\ proc.out = Flatten([i \in 1..Len(EventsOf("write")) |->
                              EventsOf("write")[i].bytes \o Suffix])

\* two different paths were written, the later record after the earlier one,
\* and the run succeeded
C16_Witness ==
    /\ proc.pc = "exited"
    /\ proc.exit_code = Some(0)
    /\ proc.style.path_arg = None
    /\ proc.delimiter = "Newline"
    /\ proc.input = AbsBytes(<<D, F>>) \o <<NUL>> \o AbsBytes(<<D, D, F>>) \o <<NUL>>
    /\ proc.out = <<"f", LF, "d", Slash, "f", LF>>

\* the records of a byte string: the pieces that end at a NUL or at its end
RefRecords(bytes) ==
    LET cuts   == {0, Len(bytes)} \cup {i \in 1..Len(bytes) : bytes[i] = NUL}
        nth(k) == CHOOSE c \in cuts : Cardinality({b \in cuts : b < c}) = k - 1
    IN  [k \in 1..(Cardinality(cuts) - 1) |-> SubSeq(bytes, nth(k) + 1, nth(k + 1))]

\* a record without the NULs and CRs it ends with
RefStrip(rec) ==
    LET keep == {k \in 1..Len(rec) : rec[k] \notin {NUL, CR}}
    IN  IF keep = {}
        THEN <<>>
        ELSE SubSeq(rec, 1, CHOOSE k \in keep : \A j \in keep : j <= k)

\* the non-empty records of a byte string, stripped
RefPaths(bytes) ==
    SelectSeq([k \in 1..Len(RefRecords(bytes)) |-> RefStrip(RefRecords(bytes)[k])],
              LAMBDA r : r # <<>>)

\* C17: the paths handed to should_include are, one call each and in order,
\* the non-empty records of the child's output read so far, split at NUL and
\* with their trailing NUL and CR bytes removed; the Rust-side matcher has no
\* say in it.
C17_RecordParsing ==
    [i \in 1..Len(EventsOf("call")) |-> EventsOf("call")[i].bytes] = RefPaths(Consumed)

\* a record of a lone CR was skipped, and a path that ended in CR and that
\* the matcher rejects was handed to the Filter
C17_Witness ==
    /\ proc.pc = "exited"
    /\ proc.input = <<CR, NUL>> \o AbsBytes(<<D, F>>) \o <<CR, NUL>>
    /\ proc.plan.rust_matcher = Some(<<"F">>)
    /\ EventsOf("call") = <<Event("call", AbsBytes(<<D, F>>))>>
    /\ proc.out = <<>>
    /\ dir_walkable_cache[SearchBase] = Some(TRUE)

C19_IndexBinaryErrors ==
    /\ proc.spawn_err = Some("NotFound") =>
          /\ ~proc.result[1].ok
          /\ \E i \in 1..Len(proc.result[1].chain) :
                proc.result[1].chain[i].type = "MdfindNotFound"
          /\ proc.pc = "exited" =>
                /\ proc.stderr = <<SpotlightLine>>
                /\ proc.exit_code = Some(1)
    /\ (proc.status # None /\ proc.status # Some("exit status: 0")) =>
          /\ ~proc.result[1].ok
          /\ \E i \in 1..Len(proc.result[1].chain) :
                \E j \in 1..Len(proc.result[1].chain[i].detail) :
                    proc.result[1].chain[i].detail[j] = proc.status[1]
          /\ proc.pc = "exited" => proc.exit_code = Some(1)

\* no mdfind binary: the message, exit code 1, nothing written
C19_Witness ==
    /\ proc.pc = "exited"
    /\ proc.spawn_err = Some("NotFound")
    /\ proc.input # <<>>
    /\ proc.out = <<>>
    /\ proc.stderr = <<SpotlightLine>>
    /\ proc.exit_code = Some(1)

(***************************************************************************)
(* The paths printed.                                                      *)
(***************************************************************************)
\* the bytes of abs_path after the directory dir and its separator, when
\* abs_path lies below dir
TailsBelow(abs_path, dir) ==
    LET prefix == IF dir = ROOT THEN <<Slash>> ELSE AbsBytes(dir) \o <<Slash>>
    IN  {SubSeq(abs_path, Len(prefix) + 1, Len(abs_path)) :
            k \in {k \in 1..(Len(abs_path) - 1) :
                      k = Len(prefix) /\ SubSeq(abs_path, 1, k) = prefix}}

\* 'src' and tail written as src/tail
Joined(arg, tail) ==
    IF arg[Len(arg)] = Slash THEN arg \o tail ELSE arg \o <<Slash>> \o tail

LeadingDotSlash(bytes) == Len(bytes) >= 2 /\ bytes[1] = "." /\ bytes[2] = Slash

\* the three rules for one rendered path; a path that is the directory
\* itself has no tail and is left to the code
RenderRules(cwd, path_arg, abs_path, shown) ==
    IF path_arg = None
    THEN \/ abs_path = cwd
         \/ shown \in TailsBelow(abs_path, FilterPath(cwd)) /\ ~LeadingDotSlash(shown)
    ELSE IF is_absolute(path_arg[1])
         THEN shown = abs_path
         ELSE \/ FilterPath(abs_path) = OnlyIn(make_absolute_dir(cwd, path_arg))
              \/ \E tail \in TailsBelow(abs_path, OnlyIn(make_absolute_dir(cwd, path_arg))) :
                    shown = Joined(path_arg[1], tail)

\* C20: render returns the path below cwd without a leading "./" when there
\* is no path argument, the absolute path when the path argument is
\* absolute, and the path argument joined with the tail below the search
\* base when the path argument is relative.
C20_RenderRules ==
    probe.shown # None =>
        RenderRules(probe.cwd, probe.path_arg, probe.abs_path, probe.shown[1])

\* a path argument with a ".." segment
HasDotDot(path_arg) ==
    path_arg # None /\ \E i \in 1..Len(ParseRaw(path_arg[1]).segs) :
                          ParseRaw(path_arg[1]).segs[i] = DotDot

\* the three rules hold for every path argument without a ".." segment
C20_RenderRulesNoDotDot ==
    (probe.shown # None /\ ~HasDotDot(probe.path_arg)) =>
        RenderRules(probe.cwd, probe.path_arg, probe.abs_path, probe.shown[1])

\* "./d" under /d and the path /d/d/d/f of the index: ./d/d/f
C20_Witness ==
    /\ probe.cwd = AbsBytes(<<D>>)
    /\ probe.path_arg = Some(<<".", Slash, "d">>)
    /\ probe.abs_path = AbsBytes(<<D, D, D, F>>)
    /\ probe.shown = Some(<<".", Slash, "d", Slash, "d", Slash, "f">>)

\* the style run() constructs for the rendered path
ProbeStyle ==
    OutputStyle(probe.cwd, make_absolute_dir(probe.cwd, probe.path_arg), probe.path_arg)

\* the tails t with x = arg/t; the empty tail when x is the argument itself
ArgTails(x, arg) ==
    LET prefix == IF arg[Len(arg)] = Slash THEN arg ELSE arg \o <<Slash>>
    IN  {SubSeq(x, Len(prefix) + 1, Len(x)) :
            k \in {k \in 1..Len(x) : k = Len(prefix) /\ SubSeq(x, 1, k) = prefix}}
        \cup (IF x = arg THEN {<<>>} ELSE {})

\* x has a tail below the argument, and the search base joined with that
\* tail renders as x
RoundTrip(x) ==
    /\ ArgTails(x, probe.path_arg[1]) # {}
    /\ \A t \in ArgTails(x, probe.path_arg[1]) :
          render(ProbeStyle, join(ProbeStyle.search_base, t)) = x

\* C21: every display path x printed under a relative path argument has a
\* tail below that argument, and rendering the search base joined with the
\* tail gives x again.
C21_RoundTrip ==
    (/\ probe.shown # None
     /\ probe.path_arg # None
     /\ ~is_absolute(probe.path_arg[1])) => RoundTrip(probe.shown[1])

\* the round trip holds for every relative path argument without ".."
C21_RoundTripNoDotDot ==
    (/\ probe.shown # None
     /\ probe.path_arg # None
     /\ ~is_absolute(probe.path_arg[1])
     /\ ~HasDotDot(probe.path_arg)) => RoundTrip(probe.shown[1])

(***************************************************************************)
(* The pattern.                                                            *)
(***************************************************************************)
\* the match the pattern asks for: a glob against the whole name, any other
\* pattern as a substring of the name
PatternMatch(pattern, name) ==
    IF is_glob(pattern) THEN WildMatch(pattern, name) ELSE Contains(name, pattern)

\* C22: a name is emitted for a pattern without an uppercase character iff
\* it matches with case ignored, and for a pattern with an uppercase
\* character iff it matches as written; so such a pattern never yields a
\* name that matches only with case ignored.
C22_SmartCase ==
    (probe.emitted # None /\ probe.pattern # None) =>
        probe.emitted[1] =
            IF has_uppercase(probe.pattern[1])
            THEN PatternMatch(probe.pattern[1], probe.name)
            ELSE PatternMatch(probe.pattern[1], Lower(probe.name))

\* the pattern F on the fast path: the index reports the name f, the
\* Rust-side matcher rejects it
C22_Witness ==
    /\ probe.base = AbsBytes(<<D>>)
    /\ probe.pattern = Some(<<"F">>)
    /\ probe.name = <<"f">>
    /\ probe.plan # None
    /\ probe.plan[1].rust_matcher = Some(<<"F">>)
    /\ IndexMatches(probe.plan[1].args, probe.name)
    /\ probe.emitted = Some(FALSE)

(***************************************************************************)
(* Totality.                                                               *)
(***************************************************************************)
\* a name no entry of the tree has
X == <<"x">>

\* the candidates, the filesystem root, the hidden directory, and two paths
\* that do not exist: one below the base and one outside it
AnyPaths == Candidates \cup {ROOT, <<D, H>>, <<D, X>>, <<X>>}

\* the number of components of an absolute path, its root included
Depth(path) == Len(path) + 1

\* the keys a call added to a cache
NewKeys(cache, cacheAfter) == {k \in Dirs : cache[k] = None /\ cacheAfter[k] # None}

\* the directory the upward walks of a call start from, at the highest
UpFrom(path) == IF IsDir(path) THEN path ELSE ParentOrSelf(path)

\* C23: in every state, for every path (a candidate, the root, a path that
\* does not exist, a path outside the base) should_include returns a boolean
\* and caches and nothing else; what its upward walks visit lies on the
\* chain from the path to the root, so no walk takes more than depth(path)
\* steps.
C23_Totality ==
    \A p \in AnyPaths :
        /\ \E r \in {should_include(fs, cfg, St, p)} :
              /\ DOMAIN r = {"res", "st"}
              /\ r.res \in BOOLEAN
              /\ \A kind \in {"walk", "repo", "fd", "ig", "git", "info"} :
                    /\ \A k \in NewKeys(St[kind], r.st[kind]) : StartsWith(UpFrom(p), k)
                    /\ Cardinality(NewKeys(St[kind], r.st[kind])) <= Depth(p)
        /\ StartsWith(UpFrom(p), cfg.search_base) =>
              Len(WalkScan(cfg, dir_walkable_cache, UpFrom(p), <<>>).missing) <= Depth(p)

\* two paths that do not exist and the root are decided (included) in a state
\* where directories are cached already
C23_Witness ==
    /\ cfg.ignore_enabled
    /\ dir_walkable_cache[<<D, D>>] # None
    /\ fdignore_by_dir[ROOT] # None
    /\ should_include(fs, cfg, St, <<D, X>>).res
    /\ should_include(fs, cfg, St, <<X>>).res
    /\ should_include(fs, cfg, St, ROOT).res

(***************************************************************************)
(* The .gitignore walk.                                                    *)
(***************************************************************************)
\* the directories from the candidate's parent up to the repository root
UpToRoot(start, root) == {a \in Prefixes(start) : Len(a) >= Len(root)}

\* the directories of dirs whose .gitignore decides the path
DecidingGitignores(f, dirs, path, is_dir) ==
    {a \in dirs : FileDecision(f, "git", a, path, is_dir) # None}

\* C24: inside a repository the .gitignore loop returns the decision of the
\* deciding .gitignore nearest to the candidate among the directories from
\* its parent up to the repository root, reads no .gitignore above that
\* deciding directory, and never one above the repository root.
C24_ClosestGitignoreWins ==
    \A p \in Entries :
        LET start == ParentOrSelf(p)
            root  == NearestRepoRoot(fs, start)
        IN  root # None =>
                \E w \in {GitignoreLoop(fs, St, p, IsDir(p), start, root[1])} :
                \E deciding \in {DecidingGitignores(fs, UpToRoot(start, root[1]),
                                                    p, IsDir(p))} :
                    /\ w.dec = IF deciding = {}
                               THEN None
                               ELSE FileDecision(fs, "git", Deepest(deciding), p, IsDir(p))
                    /\ \A k \in NewKeys(gitignore_by_dir, w.st.git) :
                          /\ k \in UpToRoot(start, root[1])
                          /\ deciding # {} => Len(k) >= Len(Deepest(deciding))
                    /\ match_git_ignores(fs, cfg, St, p, IsDir(p), start).st.git = w.st.git

\* /d is the repository root, /d/.gitignore ignores f, /d/d/.gitignore
\* whitelists it: /d/d/f has been decided and is included, and no .gitignore
\* above the repository root was read
C24_Witness ==
    /\ cfg.ignore_enabled
    /\ fs.head[SearchBase] = "head"
    /\ FileDecision(fs, "git", SearchBase, <<D, D, F>>, FALSE) = Some("Ignore")
    /\ FileDecision(fs, "git", <<D, D>>, <<D, D, F>>, FALSE) = Some("Whitelist")
    /\ gitignore_by_dir[<<D, D>>] # None
    /\ gitignore_by_dir[ROOT] = None
    /\ Res(<<D, D, F>>)

Rewritten(f, kind, dir) ==
    IF dir \in IgnDirs
    THEN {[f EXCEPT ![kind][dir] = None]}
            \cup {[f EXCEPT ![kind][dir] = Some(<<pat>>)] : pat \in Patterns}
    ELSE {f}

\* what a probe of dir/<file of kind> finds
Probed(f, kind, dir) ==
    IF FileAt(f, kind, dir) = None
    THEN None
    ELSE Some(BuildMatcher(dir, FileAt(f, kind, dir)[1]))

\* C26: a lookup of a (directory, kind) that is cached returns the cached
\* matcher or the cached absence whatever the file on disk is by now, and
\* changes no cache; a lookup that is not cached probes the file and records
\* what it found, so the file is probed at most once.
C26_ProbeOnce ==
    \A kind \in {"fd", "ig", "git"}, d \in Dirs :
        IF St[kind][d] # None
        THEN \A f2 \in Rewritten(fs, kind, d) \cup {fs} :
                get_or_build_ignore_file(f2, St, d, kind)
                    = [gi |-> St[kind][d][1], st |-> St]
        ELSE get_or_build_ignore_file(fs, St, d, kind)
                    = [gi |-> Probed(fs, kind, d),
                       st |-> [St EXCEPT ![kind][d] = Some(Probed(fs, kind, d))]]

\* /d/.fdignore was probed and compiled, /d/.ignore was probed and found
\* absent; both answers are cached
C26_Witness ==
    /\ fdignore_by_dir[SearchBase] # None
    /\ fdignore_by_dir[SearchBase][1] # None
    /\ ignore_by_dir[SearchBase] = Some(None)
    /\ gitignore_by_dir[SearchBase] = None

(***************************************************************************)
(* The walkable cache below a failure.                                     *)
(***************************************************************************)
\* C27: a call of is_walkable_to that finds a directory not walkable caches
\* that directory as false, the directories it validated above it as true,
\* and nothing for the directories of the chain below it; and in every
\* state every cached directory other than the search base has its parent
\* cached as walkable.
C27_NothingBelowFailure ==
    /\ \A p \in Candidates :
          \E r \in {is_walkable_to(fs, cfg, St, p, IsDir(p))} :
          \E new \in {NewKeys(dir_walkable_cache, r.st.walk)} :
              (~r.res /\ new # {}) =>
                  \E d \in new :
                      /\ r.st.walk[d] = Some(FALSE)
                      /\ \A k \in new \ {d} : Len(k) < Len(d) /\ r.st.walk[k] = Some(TRUE)
                      /\ \A k \in Dirs :
                            (StartsWith(Container(p), k) /\ Len(k) > Len(d)) =>
                                r.st.walk[k] = None
    /\ \A k \in Dirs :
          (dir_walkable_cache[k] # None /\ k # cfg.search_base) =>
              dir_walkable_cache[ParentOrSelf(k)] = Some(TRUE)

\* the search base was found not walkable on the way to /d/d/f: it is cached
\* as false, /d/d is not cached, and asking again for /d/d/f caches nothing
C27_Witness ==
    /\ dir_walkable_cache[SearchBase] = Some(FALSE)
    /\ dir_walkable_cache[<<D, D>>] = None
    /\ fdignore_by_dir[ROOT] # None
    /\ is_walkable_to(fs, cfg, St, <<D, D, F>>, FALSE) = [res |-> FALSE, st |-> St]

(***************************************************************************)
(* The repo-root cache fill.                                               *)
(***************************************************************************)
\* where the walk from d ends: the nearest of d and its ancestors that is
\* cached or has .git/HEAD, the filesystem root when there is none
WalkEnd(d) ==
    LET stops == {a \in Prefixes(d) : repo_root_cache[a] # None \/ HasHead(fs, a)}
    IN  IF stops = {} THEN ROOT ELSE Deepest(stops)

\* the directories the walk from d visits
WalkVisits(d) == {a \in Prefixes(d) : Len(a) >= Len(WalkEnd(d))}

\* the filesystem with another .git entry in dir
OtherHeads(f, dir) ==
    IF dir \in IgnDirs
    THEN {[f EXCEPT !.head[dir] = h] : h \in {"absent", "dir", "head"}}
    ELSE {f}

\* C28: when repo_root_for_dir(d) returns, every directory from d up to the
\* one where the walk ended holds the returned answer in the repo-root
\* cache and no other entry of the cache has changed; a directory that is
\* cached is answered from the cache whatever its .git/HEAD is by now, so
\* .git/HEAD of a directory is checked at most once.
C28_RepoRootFill ==
    \A d \in Dirs :
        /\ \E r \in {repo_root_for_dir(fs, St, d)} :
              /\ \A a \in WalkVisits(d) : r.st.repo[a] = Some(r.root)
              /\ \A k \in Dirs \ WalkVisits(d) : r.st.repo[k] = repo_root_cache[k]
        /\ repo_root_cache[d] # None =>
              \A f2 \in OtherHeads(fs, d) :
                  repo_root_for_dir(f2, St, d) = [root |-> repo_root_cache[d][1], st |-> St]

\* a .git directory without HEAD in /d: the walk from /d/d went up to "/" and
\* recorded "no repository" for /d/d, /d and "/"
C28_Witness ==
    /\ fs.head[SearchBase] = "dir"
    /\ repo_root_cache[<<D, D>>] = Some(None)
    /\ repo_root_cache[SearchBase] = Some(None)
    /\ repo_root_cache[ROOT] = Some(None)
    /\ repo_root_cache[<<D, H>>] = None

(***************************************************************************)
(* Stat failure on the candidate.                                          *)
(***************************************************************************)
\* the patterns of every ignore file and global matcher are directory-only
OnlyDirPatterns ==
    /\ \A kind \in Kinds, d \in IgnDirs :
          fs[kind][d] # None =>
              \A i \in 1..Len(fs[kind][d][1]) : fs[kind][d][1][i].dirOnly
    /\ \A i \in 1..Len(cfg.global_gitignore.pats) : cfg.global_gitignore.pats[i].dirOnly
    /\ cfg.global_fd_ignore # None =>
          \A i \in 1..Len(cfg.global_fd_ignore[1].pats) :
              cfg.global_fd_ignore[1].pats[i].dirOnly

\* C29: a candidate whose stat fails is no directory: is_walkable_to treats
\* it as it treats its parent directory, the ignore layers match it with
\* is_dir = false, so that directory-only patterns leave it alone, and
\* should_include returns a decision.
C29_StatFailure ==
    \A p \in {<<D, NoEntry>>, <<NoEntry>>} :
        /\ ~IsDir(p)
        /\ is_walkable_to(fs, cfg, St, p, IsDir(p))
              = is_walkable_to(fs, cfg, St, ParentOrSelf(p), TRUE)
        /\ Res(p) \in BOOLEAN
        /\ Res(p) = (/\ is_walkable_to(fs, cfg, St, ParentOrSelf(p), TRUE).res
                     /\ cfg.ignore_enabled => FirstLayerIncludes(fs, cfg, p, FALSE))
        /\ OnlyDirPatterns => Res(p) = is_walkable_to(fs, cfg, St, ParentOrSelf(p), TRUE).res

\* /d/.fdignore holds the line  x/ : /d/x, whose stat fails, has been decided
\* (the file is cached) and is included
C29_Witness ==
    /\ cfg.ignore_enabled
    /\ fs.fd[SearchBase] = Some(<<[name |-> NoEntry, white |-> FALSE, dirOnly |-> TRUE]>>)
    /\ fdignore_by_dir[SearchBase] # None
    /\ dir_walkable_cache[SearchBase] = Some(TRUE)
    /\ Res(<<D, NoEntry>>)

(***************************************************************************)
(* Ignore files that cannot be used.                                       *)
(***************************************************************************)
\* dir/<file of kind> is missing, no regular file, or cannot be read
Unusable(f, kind, dir) ==
    FileAt(f, kind, dir) = None \/ f.entry[kind][dir] = "unreadable"

\* the tree without its unusable ignore files
WithoutUnusable(f) ==
    [k \in DOMAIN f |->
        IF k \in Kinds
        THEN [d \in IgnDirs |-> IF Unusable(f, k, d) THEN None ELSE f[k][d]]
        ELSE IF k = "entry"
             THEN [kk \in Kinds |-> [d \in IgnDirs |-> "file"]]
             ELSE f[k]]

\* C30: an ignore file that is missing, no regular file or unreadable makes
\* its layer abstain at that directory; the decision is the one of the tree
\* without that file, it is a plain answer (no error), and a missing or
\* unreadable info/exclude gives a matcher without patterns.
C30_IgnoreFileFailures ==
    /\ \A p \in Candidates :
          /\ \E r \in {should_include(fs, cfg, St, p)} :
                /\ DOMAIN r = {"res", "st"}
                /\ r.res \in BOOLEAN
                /\ r.res = should_include(WithoutUnusable(fs), cfg, St, p).res
          /\ \A kind \in {"fd", "ig", "git"}, dir \in IgnDirs :
                Unusable(fs, kind, dir) =>
                    DecisionOf(get_or_build_ignore_file(fs, St, dir, kind).gi,
                               p, IsDir(p)) = None
    /\ \A repo \in IgnDirs :
          Unusable(fs, "info", repo) =>
              /\ build_info_exclude_matcher(fs, repo).pats = <<>>
              /\ info_exclude_for_repo(fs, St, repo).gi.pats = <<>>

\* /d/.fdignore holds the line  f  but cannot be read: its matcher is cached
\* without patterns and /d/f is included
C30_Witness ==
    /\ fs.entry.fd[SearchBase] = "unreadable"
    /\ fs.fd[SearchBase] = Some(<<[name |-> F, white |-> FALSE, dirOnly |-> FALSE]>>)
    /\ fdignore_by_dir[SearchBase] = Some(Some(BuildMatcher(SearchBase, <<>>)))
    /\ Res(<<D, F>>)

(***************************************************************************)
(* The child process at the return of mdfind::run.                         *)
(***************************************************************************)
\* mdfind::run has returned to run, which has returned to main
Returned == proc.pc \in {"main", "exited"}

\* C31: whenever mdfind::run has returned after the child was spawned, the
\* child has been waited on (child.wait() was called).
C31_NoZombies == (Returned /\ proc.spawned) => proc.waited

(***************************************************************************)
(* Query-plan selection.                                                   *)
(***************************************************************************)
\* the byte string base is dir or a path below dir
UnderBytes(base, dir) ==
    /\ Len(base) >= Len(dir)
    /\ SubSeq(base, 1, Len(dir)) = dir
    /\ Len(base) = Len(dir) \/ base[Len(dir) + 1] = Slash

\* the directories in which the -name mode is avoided
Ephemeral(base) ==
    \/ UnderBytes(base, <<Slash, "var", Slash, "folders">>)
    \/ UnderBytes(base, <<Slash, "private", Slash, "var", Slash, "folders">>)
    \/ UnderBytes(base, <<Slash, "tmp">>)
    \/ UnderBytes(base, <<Slash, "private", Slash, "tmp">>)

\* a pattern is given, without * and ?, for a base that is not ephemeral
FastPath(base, pattern) ==
    /\ pattern # None
    /\ \A i \in 1..Len(pattern[1]) : pattern[1][i] \notin {"*", "?"}
    /\ ~Ephemeral(base)

\* C32: the arguments of the plan start with -0, -onlyin, base; then follow
\* -name and the pattern iff a pattern without * and ? is given for a base
\* outside /var/folders, /private/var/folders, /tmp and /private/tmp, and
\* one kMDItemFSName predicate otherwise; the Rust-side matcher is present
\* iff the -name mode is used and the pattern has an uppercase character.
C32_PlanSelection ==
    probe.plan # None =>
        \E plan \in {probe.plan[1]} :
            /\ SubSeq(plan.args, 1, 3) = <<<<"-0">>, <<"-onlyin">>, probe.base>>
            /\ IF FastPath(probe.base, probe.pattern)
               THEN /\ Len(plan.args) = 5
                    /\ plan.args[4] = <<"-name">>
                    /\ plan.args[5] = probe.pattern[1]
               ELSE /\ Len(plan.args) = 4
                    /\ Head(plan.args[4]) = "kMDItemFSName == "
            /\ plan.rust_matcher # None <=>
                  /\ FastPath(probe.base, probe.pattern)
                  /\ \E i \in 1..Len(probe.pattern[1]) : probe.pattern[1][i] = "F"

\* the pattern F for the base /private/var/folders: a plan with a predicate
\* and no Rust-side matcher
C32_Witness ==
    /\ probe.base = AbsBytes(<<<<"private">>, <<"var">>, <<"folders">>>>)
    /\ probe.pattern = Some(<<"F">>)
    /\ probe.plan # None
    /\ Len(probe.plan[1].args) = 4
    /\ probe.plan[1].rust_matcher = None

(***************************************************************************)
(* The .fdignore and .ignore walks.                                        *)
(***************************************************************************)
\* the tree and the caches with the .fdignore and .ignore files exchanged
Exchanged(x) == [x EXCEPT !.fd = x.ig, !.ig = x.fd]

\* the directories of the chain from start to the root whose file of this
\* kind decides the path
DecidingFiles(f, kind, start, path, is_dir) ==
    {a \in Prefixes(start) : FileDecision(f, kind, a, path, is_dir) # None}

\* the directories a walk from start consults: up to the nearest deciding
\* one, or to the filesystem root when none decides
Consulted(f, kind, start, path, is_dir) ==
    LET ds == DecidingFiles(f, kind, start, path, is_dir)
    IN  IF ds = {}
        THEN Prefixes(start)
        ELSE {a \in Prefixes(start) : Len(a) >= Len(Deepest(ds))}

\* C33: for .fdignore and for .ignore the walk from the candidate's parent
\* consults the directories up to the filesystem root in that order, above
\* the search base and above the repository root too, and the nearest
\* directory whose file decides gives the decision of the layer.
C33_NearestAncestorFirst ==
    \A p \in Entries, kind \in {"fd", "ig"} :
    \A x \in {[f |-> fs, st |-> St], [f |-> Exchanged(fs), st |-> Exchanged(St)]} :
        \E r \in {match_from_ancestors(x.f, x.st, p, IsDir(p), ParentOrSelf(p), kind)} :
            /\ r.dec = NearestDecision(x.f, kind, Prefixes(ParentOrSelf(p)), p, IsDir(p))
            /\ \A a \in Dirs :
                  r.st[kind][a] # None <=>
                      \/ x.st[kind][a] # None
                      \/ a \in Consulted(x.f, kind, ParentOrSelf(p), p, IsDir(p))
            /\ \A k \in DOMAIN r.st : k # kind => r.st[k] = x.st[k]

\* /d/d is a repository root below the search base /d; /.fdignore, above
\* both, holds the line  f  and has decided /d/d/f
C33_Witness ==
    /\ fs.head[<<D, D>>] = "head"
    /\ fs.fd[ROOT] = Some(<<[name |-> F, white |-> FALSE, dirOnly |-> FALSE]>>)
    /\ fs.fd[SearchBase] = None
    /\ fdignore_by_dir[<<D, D>>] = Some(None)
    /\ fdignore_by_dir[ROOT] # None
    /\ ~Res(<<D, D, F>>)

(***************************************************************************)
(* The keys of the WalkableCache.                                          *)
(***************************************************************************)
\* the keys of a cache
Keys(cache) == {k \in Dirs : cache[k] # None}

\* C34: every key of the WalkableCache is the search base or a directory
\* below it, and no call of should_include, on whatever path, adds a key
\* that is above or outside the search base.
C34_WalkableKeysUnderBase ==
    /\ \A k \in Keys(dir_walkable_cache) : StartsWith(k, cfg.search_base)
    /\ \A p \in AnyPaths :
          \A k \in Keys(should_include(fs, cfg, St, p).st.walk) :
              StartsWith(k, cfg.search_base)

\* calls have cached the search base and /d/d and have read the ignore
\* files of /, which is no key of the WalkableCache
C34_Witness ==
    /\ dir_walkable_cache[SearchBase] # None
    /\ dir_walkable_cache[<<D, D>>] # None
    /\ fdignore_by_dir[ROOT] # None
    /\ dir_walkable_cache[ROOT] = None

(***************************************************************************)
(* The caches under -I.                                                    *)
(***************************************************************************)
\* the repo-root cache, the three ignore-file caches and the info-exclude
\* cache of a cache state
ProbeCaches(st) == [k \in {"repo", "fd", "ig", "git", "info"} |-> st[k]]

\* C35: with ignore_enabled = false the repo-root cache, the three
\* ignore-file caches and the info-exclude cache are empty in every state,
\* and a should_include call on any path leaves them empty: it probes no
\* ignore file, no info/exclude and no .git/HEAD (each probe fills a cache).
C35_NoProbesWhenDisabled ==
    ~cfg.ignore_enabled =>
        /\ ProbeCaches(St) = ProbeCaches(EmptySt)
        /\ \A p \in AnyPaths :
              ProbeCaches(should_include(fs, cfg, St, p).st) = ProbeCaches(EmptySt)

\* under -I, on a tree with an ignore file and a repository, calls have
\* filled the WalkableCache and included /d/d/f
C35_Witness ==
    /\ ~cfg.ignore_enabled
    /\ \E kind \in Kinds, d \in IgnDirs : fs[kind][d] # None
    /\ \E d \in IgnDirs : fs.head[d] = "head"
    /\ dir_walkable_cache[<<D, D>>] = Some(TRUE)
    /\ Res(<<D, D, F>>)

(***************************************************************************)
(* The hidden check comes first.                                           *)
(***************************************************************************)
\* the call returns exclude and leaves every cache as it is
ExcludedUntouched(p) == should_include(fs, cfg, St, p) = [res |-> FALSE, st |-> St]

\* p has a hidden component below the base, or anywhere when p is not under
\* the base
HiddenFor(p, base) ==
    IF StartsWith(p, base)
    THEN \E i \in (Len(base) + 1)..Len(p) :
             StartsWithDot(p[i]) /\ p[i] # Dot /\ p[i] # DotDot
    ELSE HiddenAnywhere(p)

\* C36: with include_hidden = false, should_include on a candidate that has
\* a hidden component returns false and leaves the caches unchanged.
C36_HiddenComponentFirst ==
    ~cfg.include_hidden =>
        \A p \in Candidates : HiddenAnywhere(p) => ExcludedUntouched(p)

\* C36, for the hidden predicate of the code: with include_hidden = false,
\* should_include on a candidate with a hidden component below the search
\* base (anywhere, for a candidate outside the base) returns false and
\* leaves the caches unchanged.
C36_HiddenBelowBaseFirst ==
    ~cfg.include_hidden =>
        \A p \in Candidates : HiddenFor(p, cfg.search_base) => ExcludedUntouched(p)

\* the base is /d and calls have filled caches; /d/.h/f is excluded and
\* /d/.h was never looked at
C36_Witness ==
    /\ ~cfg.include_hidden
    /\ cfg.search_base = SearchBase
    /\ dir_walkable_cache[SearchBase] # None
    /\ dir_walkable_cache[<<D, H>>] = None
    /\ ExcludedUntouched(<<D, H, F>>)

(***************************************************************************)
(* Toggling include_hidden.                                                *)
(***************************************************************************)
\* the configuration with the other value of include_hidden
Toggled(c) == [c EXCEPT !.include_hidden = ~c.include_hidden]

\* the results with include_hidden = false and with include_hidden = true:
\* the one of this Filter and the one of a new Filter with the flag toggled
WithHidden(p, hid) ==
    IF cfg.include_hidden = hid THEN Res(p) ELSE Fresh(fs, Toggled(cfg), p)

\* C37: for the same tree, base and ignore_enabled, a candidate under the
\* base without a hidden component below the base gets the same result with
\* include_hidden = true and with include_hidden = false, and every
\* candidate included with false is included with true.
C37_HiddenToggle ==
    \A p \in Candidates :
        /\ (StartsWith(p, cfg.search_base) /\ ~HiddenFor(p, cfg.search_base))
              => WithHidden(p, TRUE) = WithHidden(p, FALSE)
        /\ WithHidden(p, FALSE) => WithHidden(p, TRUE)

\* a Filter with -H has walked into /d/.h and includes /d/.h/f, which a
\* Filter without -H excludes; /d/d/f is excluded by an ignore rule with both
C37_Witness ==
    /\ cfg.include_hidden
    /\ cfg.ignore_enabled
    /\ cfg.search_base = SearchBase
    /\ dir_walkable_cache[<<D, H>>] = Some(TRUE)
    /\ Res(<<D, H, F>>)
    /\ ~WithHidden(<<D, H, F>>, FALSE)
    /\ dir_walkable_cache[<<D, D>>] = Some(FALSE)
    /\ ~Res(<<D, D, F>>)
    /\ ~WithHidden(<<D, D, F>>, FALSE)

(***************************************************************************)
(* A child that ends with a failure status.                                *)
(***************************************************************************)
\* the paths of the child's whole output that a new Filter and the
\* Rust-side matcher include, as they are rendered
IncludedOutput ==
    LET paths == RefPaths(proc.input)
        kept  == SelectSeq(paths, LAMBDA b :
                     Fresh(fs, cfg, FilterPath(b)) /\ MatcherAccepts(proc.plan, b))
    IN  [i \in 1..Len(kept) |-> render(proc.style, kept[i])]

\* C38: when child.wait() has returned a status that is no success, the
\* whole stream of the child has been read, every included record of it has
\* been written, in order, mdfind::run returns the error that names the
\* status, and the process exits with code 1 and that error on stderr.
C38_FailureAfterStream ==
    (proc.pc # "none" /\ proc.status # None /\ proc.status # Some("exit status: 0")) =>
        /\ proc.stdout = <<>>
        /\ Consumed = proc.input
        /\ [i \in 1..Len(EventsOf("write")) |-> EventsOf("write")[i].bytes] = IncludedOutput
        /\ proc.out = Flatten([i \in 1..Len(IncludedOutput) |-> IncludedOutput[i] \o Suffix])
        /\ proc.result =
              Some([ok |-> FALSE,
                    chain |-> <<[type |-> "msg",
                                 detail |-> <<"mdfind exited with status", proc.status[1]>>]>>])
        /\ proc.pc = "exited" =>
              /\ proc.exit_code = Some(1)
              /\ proc.stderr = <<<<<<"mdfind exited with status", proc.status[1]>>>>>>

\* the child was killed after it had written two records; the first was
\* written to the output before the error was reported
C38_Witness ==
    /\ proc.pc = "exited"
    /\ proc.status = Some("signal: 9")
    /\ Len(EventsOf("read")) = 2
    /\ Len(EventsOf("write")) >= 1
    /\ proc.out # <<>>
    /\ proc.exit_code = Some(1)

====
